---- MODULE Spec2Model ----
(***************************************************************************)
(* Graph versioning and change tracking of the node/edge editor            *)
(* (my-react-flow-app): the diff engine of utils/graphUtils.js and the      *)
(* staging, history and commit logic of components/FlowCanvas.jsx.         *)
(*                                                                         *)
(* The React component is modelled as a state machine.  A handler runs as  *)
(* one step; the effects React runs after the render that follows it are   *)
(* the RunEffects steps, which are taken until no effect is pending        *)
(* (dirty = {}) before the next handler runs.                              *)
(***************************************************************************)
EXTENDS Integers, Sequences, FiniteSets, TLC

VARIABLES
    nodes,                 \* useState: the live node list
    edges,                 \* useState: the live edge list
    lastSyncedNodes,       \* useState: baseline nodes
    lastSyncedEdges,       \* useState: baseline edges
    pendingChanges,        \* useState: the rendered diff result
    stagedChangeIds,       \* useState: the staging list
    lastSyncedAt,          \* useState: Null or the time of the last successful commit
    lastSyncedVersion,     \* useState: Null or a number
    isSyncing,             \* useState: the commit-in-flight flag
    syncError,             \* useState: Null or an error message
    selectedNodeId,        \* useState
    selectedNodeIds,       \* useState
    historyRef,            \* useRef: undo stack of snapshots
    futureRef,             \* useRef: redo stack of snapshots
    prevGraphRef,          \* useRef: the previous-graph reference point
    isRestoringRef,        \* useRef
    isDraggingRef,         \* useRef
    dragStartSnapshotRef,  \* useRef: Null or the snapshot taken at drag start
    skipHistoryOnceRef,    \* useRef
    seenChangeIdsRef,      \* useRef: the set of seen change ids
    inflight,              \* the outstanding handleSync calls (their closures), awaiting fetch
    dirty,                 \* which effect dependencies changed in the last render
    act,                   \* the successful commit whose re-render is in progress
    steps,                 \* number of user gestures handled so far (bounded by MaxSteps)
    commitsOk,             \* number of commits that have succeeded so far
    userUnstaged,          \* the change ids the user has unstaged and not staged again
    budget,                \* the number of user gestures the behaviour may hold
    trail                  \* the graphs the mutations produced and the position in them

vars == <<nodes, edges, lastSyncedNodes, lastSyncedEdges, pendingChanges, stagedChangeIds,
          lastSyncedAt, lastSyncedVersion, isSyncing, syncError, selectedNodeId,
          selectedNodeIds, historyRef, futureRef, prevGraphRef, isRestoringRef,
          isDraggingRef, dragStartSnapshotRef, skipHistoryOnceRef, seenChangeIdsRef,
          inflight, dirty, act, steps, commitsOk, userUnstaged, budget, trail>>

graphVars == <<nodes, edges>>
baseVars == <<lastSyncedNodes, lastSyncedEdges, lastSyncedAt, lastSyncedVersion>>
stageVars == <<pendingChanges, stagedChangeIds, seenChangeIdsRef>>
syncVars == <<isSyncing, syncError, inflight>>
selVars == <<selectedNodeId, selectedNodeIds>>
histVars == <<historyRef, futureRef, prevGraphRef, isRestoringRef, skipHistoryOnceRef>>
dragVars == <<isDraggingRef, dragStartSnapshotRef>>

(***************************************************************************)
(* Bounds of the model.                                                    *)
(***************************************************************************)
\* The number of user gestures (handler calls) a behaviour holds.
MaxSteps == 4

\* The same for the editor in which only the graph is edited, undone and redone.
MaxHistorySteps == 6

\* The ids, labels and positions the model draws from.  "a" and "B" are ordered
\* differently by localeCompare (a < B) and by UTF-16 code units (B < a).
NodeIds == {"a", "B", "c"}
EdgeIds == {"e", "F"}
Labels == {"x", "y"}
Positions == {0, 1}
\* The (source, target) pairs a suggested connection is drawn from.
Connections == {<<"B", "a">>, <<"a", "c">>}

\* The change ids a revert may be called with.
ChangeIds == {"node:" \o id : id \in NodeIds} \cup {"edge:" \o id : id \in EdgeIds}

\* JavaScript's null and undefined, for values that are otherwise strings.
Null == "null"
Undefined == "undefined"

\* lastSyncedVersion and lastSyncedAt are null until the first commit succeeds; the
\* model writes that null as 0 (versions and times start at 1).
NoNumber == 0

(***************************************************************************)
(* Sequence helpers (Array.prototype.map / filter / includes).             *)
(***************************************************************************)
Range(s) == {s[i] : i \in 1..Len(s)}

Ids(list) == {list[i].id : i \in 1..Len(list)}

SeqMap(Op(_), s) == [i \in 1..Len(s) |-> Op(s[i])]

Includes(s, x) == \E i \in 1..Len(s) : s[i] = x

UniqueIds(list) == \A i, j \in 1..Len(list) : list[i].id = list[j].id => i = j

\* new Map(list.map(x => [x.id, x])): has / get, the last entry of an id wins.
MapHas(list, id) == \E i \in 1..Len(list) : list[i].id = id

MapGet(list, id) ==
    LET last == CHOOSE i \in 1..Len(list) :
                    /\ list[i].id = id
                    /\ \A j \in (i+1)..Len(list) : list[j].id # id
    IN  list[last]

\* obj[key], Undefined when the key is absent.
Field(obj, key) == IF key \in DOMAIN obj THEN obj[key] ELSE Undefined

\* { ...obj, [key]: value }
Put(obj, key, value) ==
    [k \in (DOMAIN obj) \cup {key} |-> IF k = key THEN value ELSE obj[k]]

(***************************************************************************)
(* nodeTypes.js                                                            *)
(***************************************************************************)
DEFAULT_NODE_TYPE == "logic"

NODE_TYPE_IDS == {"logic", "descriptive", "event", "condition", "data", "output"}

LEGACY_TYPE_MAP == [note |-> "logic", default |-> "logic", input |-> "data",
                    output |-> "output", modifier |-> "logic"]

normalizeNodeType(raw) ==
    IF raw \in NODE_TYPE_IDS THEN raw
    ELSE IF raw \in DOMAIN LEGACY_TYPE_MAP THEN LEGACY_TYPE_MAP[raw]
    ELSE DEFAULT_NODE_TYPE

(***************************************************************************)
(* utils/graphUtils.js                                                     *)
(***************************************************************************)
\* a ?? b
Nullish(a, b) == IF a \in {Null, Undefined} THEN b ELSE a

getNodeTypeId(node) ==
    LET data == IF "data" \in DOMAIN node THEN node.data ELSE [none |-> Undefined]
    IN  normalizeNodeType(
            Nullish(Field(data, "nodeType"),
                Nullish(Field(node, "nodeType"),
                    Nullish(Field(node, "type"), DEFAULT_NODE_TYPE))))

attachNodeTypeWith(node, preferredType) ==
    LET nodeType == normalizeNodeType(preferredType)
    IN  Put(Put(Put(node, "type", nodeType), "nodeType", nodeType),
            "data", Put(node.data, "nodeType", nodeType))

attachNodeType(node) == attachNodeTypeWith(node, getNodeTypeId(node))

shallowEqualObjects(a, b) ==
    /\ Cardinality(DOMAIN a) = Cardinality(DOMAIN b)
    /\ \A key \in DOMAIN a : a[key] = Field(b, key)

\* A loose equality that looks at the position too.
isNodeEqualWithPosition(a, b) ==
    /\ a.type = b.type
    /\ shallowEqualObjects(a.data, b.data)
    /\ a.position = b.position

isNodeEqual(a, b) ==
    /\ a.type = b.type
    /\ shallowEqualObjects(a.data, b.data)

isEdgeEqual(a, b) ==
    /\ a.source = b.source
    /\ a.target = b.target
    /\ Nullish(Field(a, "sourceHandle"), Null) = Nullish(Field(b, "sourceHandle"), Null)
    /\ Nullish(Field(a, "targetHandle"), Null) = Nullish(Field(b, "targetHandle"), Null)
    /\ shallowEqualObjects(IF "data" \in DOMAIN a THEN a.data ELSE << >>,
                           IF "data" \in DOMAIN b THEN b.data ELSE << >>)

areNodeListsEqual(a, b) ==
    /\ Len(a) = Len(b)
    /\ \A i \in 1..Len(a) :
          /\ MapHas(b, a[i].id)
          /\ LET node == a[i]
                 other == MapGet(b, a[i].id)
             IN  /\ node.position.x = other.position.x
                 /\ node.position.y = other.position.y
                 /\ node.type = other.type
                 /\ shallowEqualObjects(node.style, other.style)
                 /\ shallowEqualObjects(node.data, other.data)

areEdgeListsEqual(a, b) ==
    /\ Len(a) = Len(b)
    /\ \A i \in 1..Len(a) :
          /\ MapHas(b, a[i].id)
          /\ LET edge == a[i]
                 other == MapGet(b, a[i].id)
             IN  /\ isEdgeEqual(edge, other)
                 /\ Nullish(Field(edge, "type"), Null) = Nullish(Field(other, "type"), Null)
                 /\ Nullish(Field(edge, "label"), Null) = Nullish(Field(other, "label"), Null)
                 /\ Nullish(Field(edge, "animated"), "false")
                        = Nullish(Field(other, "animated"), "false")

areGraphsEqual(prevNodes, prevEdges, nextNodes, nextEdges) ==
    areNodeListsEqual(prevNodes, nextNodes) /\ areEdgeListsEqual(prevEdges, nextEdges)

\* JSON.parse(JSON.stringify(value)) of a flat object: a key whose value is
\* undefined is left out.
JsonObject(obj) == [k \in {key \in DOMAIN obj : obj[key] # Undefined} |-> obj[k]]

JsonNode(node) ==
    [k \in DOMAIN node |-> IF k \in {"data", "style"} THEN JsonObject(node[k]) ELSE node[k]]

cloneGraphState(ns, es) ==
    [nodes |-> SeqMap(JsonNode, ns), edges |-> SeqMap(JsonObject, es)]

(***************************************************************************)
(* a.id.localeCompare(b.id) for change ids "node:<id>" / "edge:<id>" whose *)
(* <id> is one letter.  The default (ICU root) collation orders letters    *)
(* alphabetically without regard to case (primary weight) and, for the     *)
(* same letter, lower case before upper case (tertiary weight).            *)
(***************************************************************************)
CollationKey ==
    [a |-> <<1, 0>>, B |-> <<2, 1>>, c |-> <<3, 0>>, e |-> <<5, 0>>, F |-> <<6, 1>>]

\* The UTF-16 code unit of each one-letter id: the order of < on strings.
CodeUnit == [a |-> 97, B |-> 66, c |-> 99, e |-> 101, F |-> 70]

KindOfChangeId(cid) ==
    IF \E i \in DOMAIN CollationKey : cid = "node:" \o i THEN "node" ELSE "edge"

EntityOfChangeId(cid) ==
    CHOOSE i \in DOMAIN CollationKey : cid \in {"node:" \o i, "edge:" \o i}

localeCompare(s, t) ==
    LET ks == KindOfChangeId(s)
        kt == KindOfChangeId(t)
        ws == CollationKey[EntityOfChangeId(s)]
        wt == CollationKey[EntityOfChangeId(t)]
    IN  IF ks # kt THEN (IF ks = "edge" THEN -1 ELSE 1)
        ELSE IF ws[1] # wt[1] THEN (IF ws[1] < wt[1] THEN -1 ELSE 1)
        ELSE IF ws[2] # wt[2] THEN (IF ws[2] < wt[2] THEN -1 ELSE 1)
        ELSE 0

\* The comparator of changes.sort(...).
compareChanges(a, b) ==
    IF a.kind = b.kind THEN localeCompare(a.id, b.id)
    ELSE IF a.kind = "node" THEN -1 ELSE 1

\* Array.prototype.sort with that comparator: a stable sort.
RECURSIVE sortChanges(_)
sortChanges(s) ==
    IF Len(s) <= 1 THEN s
    ELSE LET rest == sortChanges(SubSeq(s, 1, Len(s) - 1))
             x == s[Len(s)]
             k == Cardinality({i \in 1..Len(rest) : compareChanges(rest[i], x) <= 0})
         IN  SubSeq(rest, 1, k) \o <<x>> \o SubSeq(rest, k + 1, Len(rest))

NoChange == [kind |-> "none"]

nodeChangeOf(node, synced) ==
    IF ~MapHas(synced, node.id)
    THEN [id |-> "node:" \o node.id, kind |-> "node", changeType |-> "added",
          nodeId |-> node.id, currentNode |-> node]
    ELSE IF ~isNodeEqual(node, MapGet(synced, node.id))
    THEN [id |-> "node:" \o node.id, kind |-> "node", changeType |-> "modified",
          nodeId |-> node.id, currentNode |-> node,
          previousNode |-> MapGet(synced, node.id)]
    ELSE NoChange

\* A diff that reports no removed node.
nodeRemovalOfNothing(previousNode, current) == NoChange

nodeRemovalOf(previousNode, current) ==
    IF ~MapHas(current, previousNode.id)
    THEN [id |-> "node:" \o previousNode.id, kind |-> "node", changeType |-> "removed",
          nodeId |-> previousNode.id, previousNode |-> previousNode]
    ELSE NoChange

edgeChangeOf(edge, synced) ==
    IF ~MapHas(synced, edge.id)
    THEN [id |-> "edge:" \o edge.id, kind |-> "edge", changeType |-> "added",
          edgeId |-> edge.id, currentEdge |-> edge]
    ELSE IF ~isEdgeEqual(edge, MapGet(synced, edge.id))
    THEN [id |-> "edge:" \o edge.id, kind |-> "edge", changeType |-> "modified",
          edgeId |-> edge.id, currentEdge |-> edge,
          previousEdge |-> MapGet(synced, edge.id)]
    ELSE NoChange

edgeRemovalOf(previousEdge, current) ==
    IF ~MapHas(current, previousEdge.id)
    THEN [id |-> "edge:" \o previousEdge.id, kind |-> "edge", changeType |-> "removed",
          edgeId |-> previousEdge.id, previousEdge |-> previousEdge]
    ELSE NoChange

IsChange(c) == c # NoChange

\* The changes array before it is sorted, in the order of the pushes.
collectChanges(ns, es, syncedNodes, syncedEdges) ==
    SelectSeq(
        [i \in 1..Len(ns) |-> nodeChangeOf(ns[i], syncedNodes)]
        \o [i \in 1..Len(syncedNodes) |-> nodeRemovalOf(syncedNodes[i], ns)]
        \o [i \in 1..Len(es) |-> edgeChangeOf(es[i], syncedEdges)]
        \o [i \in 1..Len(syncedEdges) |-> edgeRemovalOf(syncedEdges[i], es)],
        IsChange)

computePendingChanges(ns, es, syncedNodes, syncedEdges) ==
    sortChanges(collectChanges(ns, es, syncedNodes, syncedEdges))

(***************************************************************************)
(* constants/appConstants.js (the values are those of App.jsx) and          *)
(* data/initialGraph.js, scaled to two nodes joined by one edge.           *)
(***************************************************************************)
HISTORY_LIMIT == 50

DEFAULT_NODE_STYLE == [width |-> "220", minHeight |-> "80"]

initialNodes ==
    << [id |-> "a", type |-> "descriptive", position |-> [x |-> 0, y |-> 0],
        data |-> [label |-> "x", notes |-> "", nodeType |-> "descriptive"],
        style |-> DEFAULT_NODE_STYLE],
       [id |-> "B", type |-> "descriptive", position |-> [x |-> 1, y |-> 0],
        data |-> [label |-> "x", notes |-> "", nodeType |-> "descriptive"],
        style |-> DEFAULT_NODE_STYLE] >>

initialEdges == << [id |-> "e", source |-> "a", target |-> "B"] >>

seededInitialNodes == SeqMap(attachNodeType, initialNodes)

(***************************************************************************)
(* components/FlowCanvas.jsx: helpers of the handlers and effects.         *)
(***************************************************************************)
PendingIds(changes) == SeqMap(LAMBDA change : change.id, changes)

\* A slice that keeps the oldest entries.
FirstN(s, n) == IF Len(s) <= n THEN s ELSE SubSeq(s, 1, n)

\* array.slice(-n)
LastN(s, n) == IF Len(s) <= n THEN s ELSE SubSeq(s, Len(s) - n + 1, Len(s))

FirstIdOrNull(list) == IF Len(list) > 0 THEN list[1].id ELSE Null

\* Map.prototype.set / delete on a map kept in insertion order, and new Map(list).
MapSet(list, id, value) ==
    IF MapHas(list, id)
    THEN [i \in 1..Len(list) |-> IF list[i].id = id THEN value ELSE list[i]]
    ELSE Append(list, value)

MapDelete(list, id) == SelectSeq(list, LAMBDA x : x.id # id)

RECURSIVE MapOf(_)
MapOf(list) ==
    IF Len(list) = 0 THEN << >>
    ELSE MapSet(MapOf(SubSeq(list, 1, Len(list) - 1)), list[Len(list)].id, list[Len(list)])

\* A history effect that keeps the redo stack when it records a mutation.
historyEffectKeepingFuture ==
    IF isRestoringRef
    THEN [history |-> historyRef, future |-> futureRef,
          prev |-> cloneGraphState(nodes, edges), restoring |-> FALSE,
          skip |-> skipHistoryOnceRef]
    ELSE IF skipHistoryOnceRef
    THEN [history |-> historyRef, future |-> futureRef,
          prev |-> cloneGraphState(nodes, edges), restoring |-> FALSE, skip |-> FALSE]
    ELSE IF isDraggingRef
    THEN [history |-> historyRef, future |-> futureRef, prev |-> prevGraphRef,
          restoring |-> FALSE, skip |-> FALSE]
    ELSE IF ~areGraphsEqual(prevGraphRef.nodes, prevGraphRef.edges, nodes, edges)
    THEN [history |-> LastN(Append(historyRef, prevGraphRef), HISTORY_LIMIT),
          future |-> futureRef, prev |-> cloneGraphState(nodes, edges),
          restoring |-> FALSE, skip |-> FALSE]
    ELSE [history |-> historyRef, future |-> futureRef, prev |-> prevGraphRef,
          restoring |-> FALSE, skip |-> FALSE]

\* A history effect that does not wait for the end of a drag.
historyEffectWhileDragging ==
    IF isRestoringRef
    THEN [history |-> historyRef, future |-> futureRef,
          prev |-> cloneGraphState(nodes, edges), restoring |-> FALSE,
          skip |-> skipHistoryOnceRef]
    ELSE IF skipHistoryOnceRef
    THEN [history |-> historyRef, future |-> futureRef,
          prev |-> cloneGraphState(nodes, edges), restoring |-> FALSE, skip |-> FALSE]
    ELSE IF ~areGraphsEqual(prevGraphRef.nodes, prevGraphRef.edges, nodes, edges)
    THEN [history |-> LastN(Append(historyRef, prevGraphRef), HISTORY_LIMIT),
          future |-> << >>, prev |-> cloneGraphState(nodes, edges),
          restoring |-> FALSE, skip |-> FALSE]
    ELSE [history |-> historyRef, future |-> futureRef, prev |-> prevGraphRef,
          restoring |-> FALSE, skip |-> FALSE]

\* The history effect (the effect on [nodes, edges]).
historyEffect ==
    IF isRestoringRef
    THEN [history |-> historyRef, future |-> futureRef,
          prev |-> cloneGraphState(nodes, edges), restoring |-> FALSE,
          skip |-> skipHistoryOnceRef]
    ELSE IF skipHistoryOnceRef
    THEN [history |-> historyRef, future |-> futureRef,
          prev |-> cloneGraphState(nodes, edges), restoring |-> FALSE, skip |-> FALSE]
    ELSE IF isDraggingRef
    THEN [history |-> historyRef, future |-> futureRef, prev |-> prevGraphRef,
          restoring |-> FALSE, skip |-> FALSE]
    ELSE IF ~areGraphsEqual(prevGraphRef.nodes, prevGraphRef.edges, nodes, edges)
    THEN [history |-> LastN(Append(historyRef, prevGraphRef), HISTORY_LIMIT),
          future |-> << >>, prev |-> cloneGraphState(nodes, edges),
          restoring |-> FALSE, skip |-> FALSE]
    ELSE [history |-> historyRef, future |-> futureRef, prev |-> prevGraphRef,
          restoring |-> FALSE, skip |-> FALSE]

\* An updater that keeps the staged ids that are no longer pending.
reconcileStagedKeepingGone(previous, pendingIds, seen) ==
    LET fresh == SelectSeq(pendingIds, LAMBDA id : id \notin seen /\ ~Includes(previous, id))
    IN  previous \o fresh

\* An updater that stages every pending id, seen or not.
reconcileStagedAll(previous, pendingIds, seen) ==
    LET next == SelectSeq(previous, LAMBDA id : Includes(pendingIds, id))
        fresh == SelectSeq(pendingIds, LAMBDA id : ~Includes(next, id))
    IN  next \o fresh

\* The updater of the staging reconcile effect: previous staged ids, the ids of the
\* rendered pending list, and the content of seenChangeIdsRef when the updater runs.
reconcileStaged(previous, pendingIds, seen) ==
    LET next == SelectSeq(previous, LAMBDA id : Includes(pendingIds, id))
        fresh == SelectSeq(pendingIds, LAMBDA id : id \notin seen /\ ~Includes(next, id))
    IN  next \o fresh

\* setLastSyncedNodes / setLastSyncedEdges of a successful commit.
RECURSIVE foldNodeChanges(_, _)
foldNodeChanges(map, changes) ==
    IF Len(changes) = 0 THEN map
    ELSE LET change == Head(changes)
             next == IF change.kind # "node" THEN map
                     ELSE IF change.changeType = "added" /\ "currentNode" \in DOMAIN change
                     THEN MapSet(map, change.nodeId, change.currentNode)
                     ELSE IF change.changeType = "removed"
                     THEN MapDelete(map, change.nodeId)
                     ELSE IF change.changeType = "modified" /\ "currentNode" \in DOMAIN change
                     THEN MapSet(map, change.nodeId, change.currentNode)
                     ELSE map
         IN  foldNodeChanges(next, Tail(changes))

RECURSIVE foldEdgeChanges(_, _)
foldEdgeChanges(map, changes) ==
    IF Len(changes) = 0 THEN map
    ELSE LET change == Head(changes)
             next == IF change.kind # "edge" THEN map
                     ELSE IF change.changeType = "added" /\ "currentEdge" \in DOMAIN change
                     THEN MapSet(map, change.edgeId, change.currentEdge)
                     ELSE IF change.changeType = "removed"
                     THEN MapDelete(map, change.edgeId)
                     ELSE IF change.changeType = "modified" /\ "currentEdge" \in DOMAIN change
                     THEN MapSet(map, change.edgeId, change.currentEdge)
                     ELSE map
         IN  foldEdgeChanges(next, Tail(changes))

\* A fold that leaves the removed nodes in the baseline.
nextSyncedNodesKeepingRemoved(previousSynced, stagedChanges) ==
    foldNodeChanges(MapOf(previousSynced),
        SelectSeq(stagedChanges, LAMBDA change : change.changeType # "removed"))

nextSyncedNodes(previousSynced, stagedChanges) ==
    foldNodeChanges(MapOf(previousSynced), stagedChanges)

nextSyncedEdges(previousSynced, stagedChanges) ==
    foldEdgeChanges(MapOf(previousSynced), stagedChanges)

\* A version counter that does not count.
nextVersionAlwaysOne(prev) == 1

nextVersion(prev) == IF prev = NoNumber THEN 1 ELSE prev + 1

\* new Date(): a time later than that of every earlier commit.
newDate(prev) == prev + 1

\* The outcomes of the awaited fetch and response.json().
SuccessOutcomes == {"files", "otherShape"}
FailureOutcomes == {"networkError", "badStatus", "unparsableBody", "nullBody"}

(***************************************************************************)
(* The state after construction: the useState / useRef initial values.     *)
(* Every effect runs once after the first render.                          *)
(***************************************************************************)
\* act records the successful commit whose re-render is in progress; NoAct otherwise.
NoAct == [name |-> "none"]

\* No trail is kept.
NoTrail == [graphs |-> << >>, at |-> 0]

InitWith(gestures, startTrail, startHistory) ==
    /\ nodes = seededInitialNodes
    /\ edges = initialEdges
    /\ lastSyncedNodes = seededInitialNodes
    /\ lastSyncedEdges = initialEdges
    /\ pendingChanges = << >>
    /\ stagedChangeIds = << >>
    /\ lastSyncedAt = NoNumber
    /\ lastSyncedVersion = NoNumber
    /\ isSyncing = FALSE
    /\ syncError = Null
    /\ selectedNodeId = FirstIdOrNull(seededInitialNodes)
    /\ selectedNodeIds = << FirstIdOrNull(seededInitialNodes) >>
    /\ historyRef = startHistory
    /\ futureRef = << >>
    /\ prevGraphRef = cloneGraphState(seededInitialNodes, initialEdges)
    /\ isRestoringRef = FALSE
    /\ isDraggingRef = FALSE
    /\ dragStartSnapshotRef = << >>
    /\ skipHistoryOnceRef = FALSE
    /\ seenChangeIdsRef = {}
    /\ inflight = << >>
    /\ dirty = {"graph", "base", "pending"}
    /\ act = NoAct
    /\ steps = 0
    /\ commitsOk = 0
    /\ userUnstaged = {}
    /\ budget = gestures
    /\ trail = startTrail

Init == InitWith(MaxSteps, NoTrail, << >>)

\* The bound on the gestures.
CanStep == steps < budget

\* A step of the component leaves the records of the bound and of the trail alone.
Quiet == UNCHANGED <<budget, trail>>

\* A handler runs once the effects of the previous render have run.
Idle == dirty = {}

\* While a node is dragged the pointer is held on it: the gestures that need the
\* pointer or the inspector wait for the drag to stop.
PointerFree == ~isDraggingRef

(***************************************************************************)
(* The effects of one render: the diff effect (on nodes, edges and the     *)
(* baseline), the history effect (on nodes, edges) and the staging         *)
(* reconcile effect (on pendingChanges).  The reconcile effect passes an   *)
(* updater to setStagedChangeIds and then replaces seenChangeIdsRef; the   *)
(* updater reads the ref when React runs it: at once (eager) or in the     *)
(* next render, after the ref was replaced.                                *)
(***************************************************************************)
\* The effects with a diff effect that does not depend on the baseline.
RunEffectsDiffOnGraphOnly(eager) ==
    /\ dirty # {}
    /\ IF "graph" \in dirty
       THEN /\ pendingChanges' =
                   computePendingChanges(nodes, edges, lastSyncedNodes, lastSyncedEdges)
            /\ dirty' = {"pending"}
            /\ act' = act
       ELSE /\ UNCHANGED pendingChanges
            /\ dirty' = {}
            /\ act' = NoAct
    /\ IF "graph" \in dirty
       THEN /\ historyRef' = historyEffect.history
            /\ futureRef' = historyEffect.future
            /\ prevGraphRef' = historyEffect.prev
            /\ isRestoringRef' = historyEffect.restoring
            /\ skipHistoryOnceRef' = historyEffect.skip
       ELSE UNCHANGED histVars
    /\ IF "pending" \in dirty
       THEN LET pendingIds == PendingIds(pendingChanges)
            IN  /\ stagedChangeIds' =
                       reconcileStaged(stagedChangeIds, pendingIds,
                           IF eager THEN seenChangeIdsRef ELSE Range(pendingIds))
                /\ seenChangeIdsRef' = Range(pendingIds)
       ELSE UNCHANGED <<stagedChangeIds, seenChangeIdsRef>>
    /\ UNCHANGED <<graphVars, baseVars, syncVars, selVars, dragVars, steps,
                   commitsOk, userUnstaged>>

RunEffects(eager) ==
    /\ dirty # {}
    /\ IF dirty \cap {"graph", "base"} # {}
       THEN /\ pendingChanges' =
                   computePendingChanges(nodes, edges, lastSyncedNodes, lastSyncedEdges)
            /\ dirty' = {"pending"}
            /\ act' = act
       ELSE /\ UNCHANGED pendingChanges
            /\ dirty' = {}
            /\ act' = NoAct
    /\ IF "graph" \in dirty
       THEN /\ historyRef' = historyEffect.history
            /\ futureRef' = historyEffect.future
            /\ prevGraphRef' = historyEffect.prev
            /\ isRestoringRef' = historyEffect.restoring
            /\ skipHistoryOnceRef' = historyEffect.skip
       ELSE UNCHANGED histVars
    /\ IF "pending" \in dirty
       THEN LET pendingIds == PendingIds(pendingChanges)
            IN  /\ stagedChangeIds' =
                       reconcileStaged(stagedChangeIds, pendingIds,
                           IF eager THEN seenChangeIdsRef ELSE Range(pendingIds))
                /\ seenChangeIdsRef' = Range(pendingIds)
       ELSE UNCHANGED <<stagedChangeIds, seenChangeIdsRef>>
    /\ UNCHANGED <<graphVars, baseVars, syncVars, selVars, dragVars, steps,
                   commitsOk, userUnstaged>>

(***************************************************************************)
(* Gestures that change the graph.                                         *)
(***************************************************************************)
onNodeClick(id) ==
    /\ Idle
    /\ PointerFree
    /\ CanStep
    /\ id \in Ids(nodes)
    /\ selectedNodeId' = id
    /\ selectedNodeIds' = <<id>>
    /\ steps' = steps + 1
    /\ act' = NoAct
    /\ UNCHANGED <<graphVars, baseVars, stageVars, syncVars, histVars, dragVars, dirty, commitsOk, userUnstaged>>

\* onPaneContextMenu (and paste): a new node under an id the live graph does not hold.
onPaneContextMenu(newId) ==
    /\ Idle
    /\ PointerFree
    /\ CanStep
    /\ newId \notin Ids(nodes)
    /\ nodes' = Append(nodes,
           attachNodeTypeWith(
               [id |-> newId, type |-> DEFAULT_NODE_TYPE, position |-> [x |-> 0, y |-> 0],
                data |-> [label |-> "x", notes |-> ""], style |-> DEFAULT_NODE_STYLE],
               DEFAULT_NODE_TYPE))
    /\ selectedNodeId' = newId
    /\ selectedNodeIds' = <<newId>>
    /\ dirty' = {"graph"}
    /\ steps' = steps + 1
    /\ act' = NoAct
    /\ UNCHANGED <<edges, baseVars, stageVars, syncVars, histVars, dragVars,
                   commitsOk, userUnstaged>>

\* handleSaveNode: the inspector's label is written to the selected node.
handleSaveNode(inspectorLabel) ==
    /\ Idle
    /\ PointerFree
    /\ CanStep
    /\ selectedNodeId # Null
    /\ nodes' = [i \in 1..Len(nodes) |->
                    IF nodes[i].id = selectedNodeId
                    THEN attachNodeTypeWith(
                             Put(Put(nodes[i], "type", getNodeTypeId(nodes[i])), "data",
                                 Put(Put(nodes[i].data, "label", inspectorLabel),
                                     "notes", Nullish(Field(nodes[i].data, "notes"), ""))),
                             getNodeTypeId(nodes[i]))
                    ELSE nodes[i]]
    /\ dirty' = {"graph"}
    /\ steps' = steps + 1
    /\ act' = NoAct
    /\ UNCHANGED <<edges, baseVars, stageVars, syncVars, selVars, histVars, dragVars,
                   commitsOk, userUnstaged>>

\* onNodesChange / onEdgesChange with the remove changes React Flow sends when a node
\* is deleted: the node and the edges connected to it.
deleteNode(id) ==
    /\ Idle
    /\ PointerFree
    /\ CanStep
    /\ id \in Ids(nodes)
    /\ nodes' = SelectSeq(nodes, LAMBDA node : node.id # id)
    /\ edges' = SelectSeq(edges, LAMBDA edge : edge.source # id /\ edge.target # id)
    /\ dirty' = {"graph"}
    /\ steps' = steps + 1
    /\ act' = NoAct
    /\ UNCHANGED <<baseVars, stageVars, syncVars, selVars, histVars, dragVars,
                   commitsOk, userUnstaged>>

\* onEdgesChange with a remove change.
deleteEdge(id) ==
    /\ Idle
    /\ PointerFree
    /\ CanStep
    /\ id \in Ids(edges)
    /\ edges' = SelectSeq(edges, LAMBDA edge : edge.id # id)
    /\ dirty' = {"graph"}
    /\ steps' = steps + 1
    /\ act' = NoAct
    /\ UNCHANGED <<nodes, baseVars, stageVars, syncVars, selVars, histVars, dragVars,
                   commitsOk, userUnstaged>>

\* applyAiSuggestions with one suggested connection (its setEdges updater).
addSuggestedEdge(id, source, target) ==
    /\ Idle
    /\ PointerFree
    /\ CanStep
    /\ id \notin Ids(edges)
    /\ source \in Ids(nodes) /\ target \in Ids(nodes) /\ source # target
    /\ ~\E i \in 1..Len(edges) : edges[i].source = source /\ edges[i].target = target
    /\ edges' = Append(edges,
           [id |-> id, source |-> source, target |-> target, animated |-> "false"])
    /\ nodes' = nodes
    /\ dirty' = {"graph"}
    /\ steps' = steps + 1
    /\ act' = NoAct
    /\ UNCHANGED <<baseVars, stageVars, syncVars, selVars, histVars, dragVars,
                   commitsOk, userUnstaged>>

(***************************************************************************)
(* Dragging.                                                               *)
(***************************************************************************)
onNodeDragStart(id) ==
    /\ Idle
    /\ CanStep
    /\ id \in Ids(nodes)
    /\ selectedNodeId' = id
    /\ selectedNodeIds' = <<id>>
    /\ IF ~isDraggingRef
       THEN /\ isDraggingRef' = TRUE
            /\ dragStartSnapshotRef' = <<cloneGraphState(nodes, edges)>>
       ELSE UNCHANGED dragVars
    /\ steps' = steps + 1
    /\ act' = NoAct
    /\ UNCHANGED <<graphVars, baseVars, stageVars, syncVars, histVars, dirty,
                   commitsOk, userUnstaged>>

\* onNodesChange with a position change of the dragged node (the one the drag
\* selected): React Flow sends one when the node has moved.
onNodesChangePosition(x) ==
    /\ Idle
    /\ CanStep
    /\ isDraggingRef
    /\ \E i \in 1..Len(nodes) : nodes[i].id = selectedNodeId /\ nodes[i].position.x # x
    /\ nodes' = [i \in 1..Len(nodes) |->
                    IF nodes[i].id = selectedNodeId
                    THEN Put(nodes[i], "position", [x |-> x, y |-> nodes[i].position.y])
                    ELSE nodes[i]]
    /\ dirty' = {"graph"}
    /\ steps' = steps + 1
    /\ act' = NoAct
    /\ UNCHANGED <<edges, baseVars, stageVars, syncVars, selVars, histVars, dragVars,
                   commitsOk, userUnstaged>>

\* onNodeDragStop; React Flow may send a last onNodesChange (dragging: false) in the
\* same event, which gives the node list a new identity (lastChange).
onNodeDragStop(lastChange) ==
    /\ Idle
    /\ isDraggingRef
    /\ LET startSnapshot == dragStartSnapshotRef[1]
           endSnapshot == cloneGraphState(nodes, edges)
       IN  IF areGraphsEqual(startSnapshot.nodes, startSnapshot.edges,
                             endSnapshot.nodes, endSnapshot.edges)
           THEN /\ prevGraphRef' = endSnapshot
                /\ skipHistoryOnceRef' = TRUE
                /\ UNCHANGED <<historyRef, futureRef>>
           ELSE /\ historyRef' = LastN(Append(historyRef, startSnapshot), HISTORY_LIMIT)
                /\ futureRef' = << >>
                /\ prevGraphRef' = endSnapshot
                /\ skipHistoryOnceRef' = TRUE
    /\ isDraggingRef' = FALSE
    /\ dragStartSnapshotRef' = << >>
    /\ dirty' = IF lastChange THEN {"graph"} ELSE {}
    /\ act' = NoAct
    /\ UNCHANGED <<graphVars, baseVars, stageVars, syncVars, selVars, isRestoringRef, steps, commitsOk, userUnstaged>>

(***************************************************************************)
(* Undo / redo.                                                            *)
(***************************************************************************)
\* applySnapshot's repair of the selection.
repairedSelectedId(snapshot) ==
    IF selectedNodeId \in Ids(snapshot.nodes) THEN selectedNodeId
    ELSE FirstIdOrNull(snapshot.nodes)

\* A repair that keeps the selection as it is.
repairedSelectedIdsUnfiltered(snapshot) == selectedNodeIds

repairedSelectedIds(snapshot) ==
    LET filtered == SelectSeq(selectedNodeIds, LAMBDA id : id \in Ids(snapshot.nodes))
    IN  IF Len(filtered) > 0 THEN filtered
        ELSE IF Len(snapshot.nodes) > 0 THEN <<snapshot.nodes[1].id>> ELSE << >>

\* undo; called records the call for the render that follows (NoAct: not recorded).
undoAs(called) ==
    /\ Idle
    /\ IF Len(historyRef) = 0
       THEN UNCHANGED <<graphVars, selVars, histVars, dirty, steps>>
       ELSE LET previous == historyRef[Len(historyRef)]
            IN  /\ CanStep
                /\ steps' = steps + 1
                /\ historyRef' = SubSeq(historyRef, 1, Len(historyRef) - 1)
                /\ futureRef' = Append(futureRef, cloneGraphState(nodes, edges))
                /\ isRestoringRef' = TRUE
                /\ nodes' = previous.nodes
                /\ edges' = previous.edges
                /\ selectedNodeId' = repairedSelectedId(previous)
                /\ selectedNodeIds' = repairedSelectedIds(previous)
                /\ dirty' = {"graph"}
                /\ UNCHANGED <<prevGraphRef, skipHistoryOnceRef>>
    /\ act' = called
    /\ UNCHANGED <<baseVars, stageVars, syncVars, dragVars, commitsOk,
                   userUnstaged>>

undo == undoAs(NoAct)

\* A redo that saves the live graph before it looks at the redo stack.
redoAsSavingFirst(called) ==
    /\ Idle
    /\ IF Len(futureRef) = 0
       THEN /\ historyRef' =
                   LastN(Append(historyRef, cloneGraphState(nodes, edges)), HISTORY_LIMIT)
            /\ UNCHANGED <<graphVars, selVars, futureRef, prevGraphRef, isRestoringRef,
                           skipHistoryOnceRef, dirty, steps>>
       ELSE LET next == futureRef[Len(futureRef)]
            IN  /\ CanStep
                /\ steps' = steps + 1
                /\ futureRef' = SubSeq(futureRef, 1, Len(futureRef) - 1)
                /\ historyRef' =
                       LastN(Append(historyRef, cloneGraphState(nodes, edges)), HISTORY_LIMIT)
                /\ isRestoringRef' = TRUE
                /\ nodes' = next.nodes
                /\ edges' = next.edges
                /\ selectedNodeId' = repairedSelectedId(next)
                /\ selectedNodeIds' = repairedSelectedIds(next)
                /\ dirty' = {"graph"}
                /\ UNCHANGED <<prevGraphRef, skipHistoryOnceRef>>
    /\ act' = called
    /\ UNCHANGED <<baseVars, stageVars, syncVars, dragVars, commitsOk,
                   userUnstaged>>

redoAs(called) ==
    /\ Idle
    /\ IF Len(futureRef) = 0
       THEN UNCHANGED <<graphVars, selVars, histVars, dirty, steps>>
       ELSE LET next == futureRef[Len(futureRef)]
            IN  /\ CanStep
                /\ steps' = steps + 1
                /\ futureRef' = SubSeq(futureRef, 1, Len(futureRef) - 1)
                /\ historyRef' =
                       LastN(Append(historyRef, cloneGraphState(nodes, edges)), HISTORY_LIMIT)
                /\ isRestoringRef' = TRUE
                /\ nodes' = next.nodes
                /\ edges' = next.edges
                /\ selectedNodeId' = repairedSelectedId(next)
                /\ selectedNodeIds' = repairedSelectedIds(next)
                /\ dirty' = {"graph"}
                /\ UNCHANGED <<prevGraphRef, skipHistoryOnceRef>>
    /\ act' = called
    /\ UNCHANGED <<baseVars, stageVars, syncVars, dragVars, commitsOk,
                   userUnstaged>>

redo == redoAs(NoAct)

(***************************************************************************)
(* Staging and revert (the handlers passed to VersionControlPanel, which   *)
(* renders one row per pending change).                                    *)
(***************************************************************************)
handleToggleStage(changeId) ==
    /\ Idle
    /\ CanStep
    /\ PointerFree
    /\ Includes(PendingIds(pendingChanges), changeId)
    /\ stagedChangeIds' =
           IF Includes(stagedChangeIds, changeId)
           THEN SelectSeq(stagedChangeIds, LAMBDA id : id # changeId)
           ELSE Append(stagedChangeIds, changeId)
    /\ userUnstaged' =
           IF Includes(stagedChangeIds, changeId)
           THEN userUnstaged \cup {changeId}
           ELSE userUnstaged \ {changeId}
    /\ steps' = steps + 1
    /\ act' = NoAct
    /\ UNCHANGED <<graphVars, baseVars, pendingChanges, seenChangeIdsRef, syncVars, selVars,
                   histVars, dragVars, dirty, commitsOk>>

handleStageAll ==
    /\ Idle
    /\ CanStep
    /\ PointerFree
    /\ Len(pendingChanges) > 0
    /\ stagedChangeIds' = PendingIds(pendingChanges)
    /\ userUnstaged' = {}
    /\ steps' = steps + 1
    /\ act' = NoAct
    /\ UNCHANGED <<graphVars, baseVars, pendingChanges, seenChangeIdsRef, syncVars, selVars,
                   histVars, dragVars, dirty, commitsOk>>

handleUnstageAll ==
    /\ Idle
    /\ CanStep
    /\ PointerFree
    /\ Len(pendingChanges) > 0
    /\ stagedChangeIds' = << >>
    /\ userUnstaged' = userUnstaged \cup Range(stagedChangeIds)
    /\ steps' = steps + 1
    /\ act' = NoAct
    /\ UNCHANGED <<graphVars, baseVars, pendingChanges, seenChangeIdsRef, syncVars, selVars,
                   histVars, dragVars, dirty, commitsOk>>

\* The setNodes updater of handleRevertChange for a node change.
revertedNodes(current, change) ==
    IF change.changeType = "added"
    THEN SelectSeq(current, LAMBDA node : node.id # change.nodeId)
    ELSE IF change.changeType = "removed" /\ "previousNode" \in DOMAIN change
    THEN IF MapHas(current, change.nodeId) THEN current
         ELSE Append(current, attachNodeType(change.previousNode))
    ELSE IF change.changeType = "modified" /\ "previousNode" \in DOMAIN change
    THEN [i \in 1..Len(current) |->
             IF current[i].id = change.nodeId THEN attachNodeType(change.previousNode)
             ELSE current[i]]
    ELSE current

\* A revert that leaves a modified edge as it is.
revertedEdgesKeepingModified(current, change) ==
    IF change.changeType = "added"
    THEN SelectSeq(current, LAMBDA edge : edge.id # change.edgeId)
    ELSE IF change.changeType = "removed" /\ "previousEdge" \in DOMAIN change
    THEN IF MapHas(current, change.edgeId) THEN current
         ELSE Append(current, change.previousEdge)
    ELSE current

\* The setEdges updater of handleRevertChange for an edge change.
revertedEdges(current, change) ==
    IF change.changeType = "added"
    THEN SelectSeq(current, LAMBDA edge : edge.id # change.edgeId)
    ELSE IF change.changeType = "removed" /\ "previousEdge" \in DOMAIN change
    THEN IF MapHas(current, change.edgeId) THEN current
         ELSE Append(current, change.previousEdge)
    ELSE IF change.changeType = "modified" /\ "previousEdge" \in DOMAIN change
    THEN [i \in 1..Len(current) |->
             IF current[i].id = change.edgeId THEN change.previousEdge ELSE current[i]]
    ELSE current

\* pendingChanges.find(item => item.id === changeId): the first entry of that id.
findChange(changes, changeId) ==
    changes[CHOOSE i \in 1..Len(changes) :
                /\ changes[i].id = changeId
                /\ \A j \in 1..(i - 1) : changes[j].id # changeId]

\* A revert that treats its state update as a restore, which the history effect does
\* not record.
handleRevertChangeAsRestore(changeId, called) ==
    /\ Idle
    /\ PointerFree
    /\ IF ~Includes(PendingIds(pendingChanges), changeId)
       THEN UNCHANGED <<graphVars, pendingChanges, stagedChangeIds, dirty, steps, isRestoringRef>>
       ELSE LET change == findChange(pendingChanges, changeId)
            IN  /\ CanStep
                /\ steps' = steps + 1
                /\ IF change.kind = "node"
                   THEN /\ nodes' = revertedNodes(nodes, change)
                        /\ edges' = edges
                   ELSE /\ edges' = revertedEdges(edges, change)
                        /\ nodes' = nodes
                /\ stagedChangeIds' = SelectSeq(stagedChangeIds, LAMBDA id : id # changeId)
                /\ pendingChanges' =
                       SelectSeq(pendingChanges, LAMBDA item : item.id # changeId)
                /\ dirty' = {"graph", "pending"}
                /\ isRestoringRef' = TRUE
    /\ act' = called
    /\ UNCHANGED <<baseVars, seenChangeIdsRef, syncVars, selVars, historyRef, futureRef,
                   prevGraphRef, skipHistoryOnceRef, dragVars, commitsOk, userUnstaged>>

\* handleRevertChange; called records the call for the render that follows.
handleRevertChangeAs(changeId, called) ==
    /\ Idle
    /\ PointerFree
    /\ IF ~Includes(PendingIds(pendingChanges), changeId)
       THEN UNCHANGED <<graphVars, pendingChanges, stagedChangeIds, dirty, steps>>
       ELSE LET change == findChange(pendingChanges, changeId)
            IN  /\ CanStep
                /\ steps' = steps + 1
                /\ IF change.kind = "node"
                   THEN /\ nodes' = revertedNodes(nodes, change)
                        /\ edges' = edges
                   ELSE /\ edges' = revertedEdges(edges, change)
                        /\ nodes' = nodes
                /\ stagedChangeIds' = SelectSeq(stagedChangeIds, LAMBDA id : id # changeId)
                /\ pendingChanges' =
                       SelectSeq(pendingChanges, LAMBDA item : item.id # changeId)
                /\ dirty' = {"graph", "pending"}
    /\ act' = called
    /\ UNCHANGED <<baseVars, seenChangeIdsRef, syncVars, selVars, histVars, dragVars,
                   commitsOk, userUnstaged>>

handleRevertChange(changeId) == handleRevertChangeAs(changeId, NoAct)

(***************************************************************************)
(* Commit: handleSync up to its await, and its continuation once the       *)
(* fetch of one outstanding call has settled.                              *)
(***************************************************************************)
\* A request that carries every pending change, staged or not.
stagedChangesOfAll(changes, stagedIds) == changes

stagedChangesOf(changes, stagedIds) ==
    SelectSeq(changes, LAMBDA change : Includes(stagedIds, change.id))

unstagedOf(changes, stagedIds) ==
    {<<changes[i].id, changes[i].changeType>> :
        i \in {j \in 1..Len(changes) : ~Includes(stagedIds, changes[j].id)}}

\* The top-bar button is disabled while isSyncing or with nothing staged; the
\* panel's button only with nothing staged.
buttonEnabled(button) ==
    IF button = "top" THEN Len(stagedChangeIds) > 0 /\ ~isSyncing
    ELSE Len(stagedChangeIds) > 0

handleSync(button) ==
    /\ Idle
    /\ PointerFree
    /\ CanStep
    /\ buttonEnabled(button)
    /\ Len(stagedChangeIds) > 0
    /\ inflight' = Append(inflight,
           [changes |-> stagedChangesOf(pendingChanges, stagedChangeIds),
            unstaged |-> unstagedOf(pendingChanges, stagedChangeIds)])
    /\ isSyncing' = TRUE
    /\ syncError' = Null
    /\ steps' = steps + 1
    /\ act' = NoAct
    /\ UNCHANGED <<graphVars, baseVars, stageVars, selVars, histVars, dragVars, dirty,
                   commitsOk, userUnstaged>>

RemoveAt(s, i) == SubSeq(s, 1, i - 1) \o SubSeq(s, i + 1, Len(s))

syncSucceeded(i, outcome) ==
    /\ Idle
    /\ i \in 1..Len(inflight)
    /\ outcome \in SuccessOutcomes
    /\ lastSyncedAt' = newDate(lastSyncedAt)
    /\ lastSyncedVersion' = nextVersion(lastSyncedVersion)
    /\ lastSyncedNodes' = nextSyncedNodes(lastSyncedNodes, inflight[i].changes)
    /\ lastSyncedEdges' = nextSyncedEdges(lastSyncedEdges, inflight[i].changes)
    /\ stagedChangeIds' = << >>
    /\ isSyncing' = FALSE
    /\ inflight' = RemoveAt(inflight, i)
    /\ dirty' = {"base"}
    /\ commitsOk' = commitsOk + 1
    /\ act' = [name |-> "syncSucceeded",
               changes |-> inflight[i].changes,
               unstagedAtCall |-> inflight[i].unstaged,
               unstagedAtEnd |-> unstagedOf(pendingChanges, stagedChangeIds),
               stagedAtEnd |-> Range(stagedChangeIds)]
    /\ UNCHANGED <<graphVars, pendingChanges, seenChangeIdsRef, syncError, selVars, histVars,
                   dragVars, steps, userUnstaged>>

\* A failure path that also clears the staging list.
syncFailedClearingStaged(i, outcome) ==
    /\ Idle
    /\ i \in 1..Len(inflight)
    /\ outcome \in FailureOutcomes
    /\ syncError' = outcome
    /\ isSyncing' = FALSE
    /\ inflight' = RemoveAt(inflight, i)
    /\ stagedChangeIds' = << >>
    /\ act' = NoAct
    /\ UNCHANGED <<graphVars, baseVars, pendingChanges, seenChangeIdsRef, selVars, histVars,
                   dragVars, dirty, steps, commitsOk, userUnstaged>>

\* A failure path that counts the failed commit as a version.
syncFailedAdvancingVersion(i, outcome) ==
    /\ Idle
    /\ i \in 1..Len(inflight)
    /\ outcome \in FailureOutcomes
    /\ syncError' = outcome
    /\ isSyncing' = FALSE
    /\ inflight' = RemoveAt(inflight, i)
    /\ lastSyncedVersion' = nextVersion(lastSyncedVersion)
    /\ act' = NoAct
    /\ UNCHANGED <<graphVars, lastSyncedNodes, lastSyncedEdges, lastSyncedAt, stageVars,
                   selVars, histVars, dragVars, dirty, steps, commitsOk, userUnstaged>>

syncFailed(i, outcome) ==
    /\ Idle
    /\ i \in 1..Len(inflight)
    /\ outcome \in FailureOutcomes
    /\ syncError' = outcome
    /\ isSyncing' = FALSE
    /\ inflight' = RemoveAt(inflight, i)
    /\ act' = NoAct
    /\ UNCHANGED <<graphVars, baseVars, stageVars, selVars, histVars, dragVars, dirty, steps, commitsOk, userUnstaged>>

(***************************************************************************)
(* The editor.                                                             *)
(***************************************************************************)
Next ==
    \/ \E eager \in BOOLEAN : RunEffects(eager) /\ Quiet
    \/ \E id \in NodeIds : onNodeClick(id) /\ Quiet
    \/ \E id \in NodeIds : onPaneContextMenu(id) /\ Quiet
    \/ \E label \in Labels : handleSaveNode(label) /\ Quiet
    \/ \E id \in NodeIds : deleteNode(id) /\ Quiet
    \/ \E id \in EdgeIds : deleteEdge(id) /\ Quiet
    \/ \E id \in EdgeIds, conn \in Connections : addSuggestedEdge(id, conn[1], conn[2]) /\ Quiet
    \/ \E id \in NodeIds : onNodeDragStart(id) /\ Quiet
    \/ \E x \in Positions : onNodesChangePosition(x) /\ Quiet
    \/ \E lastChange \in BOOLEAN : onNodeDragStop(lastChange) /\ Quiet
    \/ undo /\ Quiet
    \/ redo /\ Quiet
    \/ \E id \in Range(PendingIds(pendingChanges)) : handleToggleStage(id) /\ Quiet
    \/ handleStageAll /\ Quiet
    \/ handleUnstageAll /\ Quiet
    \/ \E id \in ChangeIds : handleRevertChange(id) /\ Quiet
    \/ \E button \in {"top", "panel"} : handleSync(button) /\ Quiet
    \/ \E i \in 1..Len(inflight), outcome \in SuccessOutcomes : syncSucceeded(i, outcome) /\ Quiet
    \/ \E i \in 1..Len(inflight), outcome \in FailureOutcomes : syncFailed(i, outcome) /\ Quiet

Spec == Init /\ [][Next]_vars

(***************************************************************************)
(* Commit exclusivity.                                                     *)
(***************************************************************************)
\* C1: while a commit started by handleSync is outstanding, a further handleSync
\* sends no second request, so at most one commit request is outstanding in
\* every reachable state.
C1_AtMostOneCommitOutstanding == Len(inflight) <= 1

(***************************************************************************)
(* Failure atomicity.                                                      *)
(***************************************************************************)
\* A step in which a call of handleSync starts, or ends without having succeeded.
CommitStartsOrFails ==
    /\ Len(inflight') # Len(inflight)
    /\ commitsOk' = commitsOk

\* C2: a handleSync call that fails (for whatever reason) leaves the baseline,
\* lastSyncedVersion, lastSyncedAt, stagedChangeIds and pendingChanges as they were
\* before the call: neither its start nor its failure changes any of them, and
\* neither makes an effect run that could.
C2_FailedCommitChangesNothing ==
    [][CommitStartsOrFails =>
           UNCHANGED <<lastSyncedNodes, lastSyncedEdges, lastSyncedVersion, lastSyncedAt,
                       stagedChangeIds, pendingChanges, dirty>>]_vars

\* A failed commit has been handled while changes were staged.
C2_Witness ==
    /\ syncError = "unparsableBody"
    /\ Len(inflight) = 0
    /\ Len(stagedChangeIds) > 0
    /\ Len(pendingChanges) > Len(stagedChangeIds)

(***************************************************************************)
(* The baseline after a successful commit.                                 *)
(***************************************************************************)
EntityIdOf(change) == IF change.kind = "node" THEN change.nodeId ELSE change.edgeId

CurrentEntityOf(change) ==
    IF change.kind = "node" THEN change.currentNode ELSE change.currentEdge

\* The ids of the changes of one kind in a list of changes.
EntityIdsOf(changes, kind) ==
    {EntityIdOf(changes[i]) : i \in {j \in 1..Len(changes) : changes[j].kind = kind}}

\* new is old with the changes of one kind folded in by id.
FoldedById(old, new, changes, kind) ==
    /\ \A i \in 1..Len(changes) :
           changes[i].kind = kind =>
               IF changes[i].changeType = "removed"
               THEN ~MapHas(new, EntityIdOf(changes[i]))
               ELSE /\ MapHas(new, EntityIdOf(changes[i]))
                    /\ MapGet(new, EntityIdOf(changes[i])) = CurrentEntityOf(changes[i])
    /\ \A id \in (Ids(old) \cup Ids(new)) \ EntityIdsOf(changes, kind) :
           /\ MapHas(old, id)
           /\ MapHas(new, id)
           /\ MapGet(old, id) = MapGet(new, id)
    /\ UniqueIds(new)

\* C3: a successful commit makes the baseline the old baseline with every staged
\* change folded in by id: the current entity under the id of an added or modified
\* change, no entry under the id of a removed change, every other entry as it was.
C3_BaselineFoldsStagedChanges ==
    [][commitsOk' = commitsOk + 1 =>
           /\ FoldedById(lastSyncedNodes, lastSyncedNodes', act'.changes, "node")
           /\ FoldedById(lastSyncedEdges, lastSyncedEdges', act'.changes, "edge")]_vars

\* A commit that carried a removed and a modified change has succeeded.
C3_Witness ==
    /\ act.name = "syncSucceeded"
    /\ dirty = {"base"}
    /\ \E i, j \in 1..Len(act.changes) :
           /\ act.changes[i].changeType = "removed"
           /\ act.changes[j].changeType = "modified"
    /\ Len(lastSyncedNodes) > 0

(***************************************************************************)
(* Staging after a successful commit.                                      *)
(***************************************************************************)
\* The change u = <<id, changeType>> is in the pending list and not staged.
PendingAndUnstaged(changes, staged, u) ==
    /\ \E i \in 1..Len(changes) : changes[i].id = u[1] /\ changes[i].changeType = u[2]
    /\ ~Includes(staged, u[1])

\* The step that ends the re-render of a successful commit.
CommitSettles == act.name = "syncSucceeded" /\ dirty' = {}

\* C4 (as stated): after a successful commit the staging list is empty, and every
\* change that was pending and not staged when the commit was invoked is, after the
\* next diff recomputation, still pending with that id and change type and not staged.
C4_UnstagedAtCallStayPending ==
    [][/\ commitsOk' = commitsOk + 1 => stagedChangeIds' = << >>
       /\ CommitSettles =>
              \A u \in act.unstagedAtCall :
                  PendingAndUnstaged(pendingChanges', stagedChangeIds', u)]_vars

\* C4 (amended): a successful commit empties the staging list, and every change
\* that is pending and not staged when the commit completes, and whose id is not the
\* id of a change the commit carried, is after the next diff recomputation still
\* pending with that id and change type and still not staged.
C4_UnstagedAtEndStayPending ==
    [][/\ commitsOk' = commitsOk + 1 => stagedChangeIds' = << >>
       /\ CommitSettles =>
              \A u \in act.unstagedAtEnd :
                  u[1] \notin Range(PendingIds(act.changes)) =>
                      PendingAndUnstaged(pendingChanges', stagedChangeIds', u)]_vars

\* A commit has succeeded while a modified node was pending and not staged, and the
\* diff has been recomputed.
C4_Witness ==
    /\ act.name = "syncSucceeded"
    /\ dirty = {"pending"}
    /\ \E u \in act.unstagedAtEnd :
           /\ u[2] = "modified"
           /\ u[1] \notin Range(PendingIds(act.changes))
           /\ \E i \in 1..Len(act.changes) : act.changes[i].changeType = "added"
    /\ lastSyncedVersion = 1

(***************************************************************************)
(* Version and time of the last commit.                                    *)
(***************************************************************************)
\* C5: lastSyncedVersion is null while no commit has succeeded and is the number of
\* successful commits afterwards; lastSyncedAt is null exactly when
\* lastSyncedVersion is; only a successful commit changes either.
C5_VersionCountsCommits ==
    /\ [](/\ lastSyncedVersion = IF commitsOk = 0 THEN NoNumber ELSE commitsOk
          /\ (lastSyncedAt = NoNumber) <=> (lastSyncedVersion = NoNumber))
    /\ [][commitsOk' = commitsOk => UNCHANGED <<lastSyncedVersion, lastSyncedAt>>]_vars

\* Two commits have succeeded.
C5_Witness ==
    /\ commitsOk = 2
    /\ lastSyncedVersion = 2
    /\ lastSyncedAt # NoNumber

C7_CommitKeepsPendingChangesStaged ==
    [][CommitSettles =>
           \A id \in act.stagedAtEnd :
               Includes(PendingIds(pendingChanges'), id) =>
                   Includes(stagedChangeIds', id)]_vars

\* C8: after every reconciliation of the staging list with a new diff result, and
\* after toggle, stageAll, unstageAll, revert and commit completion, stagedChangeIds
\* holds only ids of pending changes and holds no id twice.  (Only between a diff
\* recomputation and the reconciliation that follows it may the list be stale.)
C8_StagedWithinPending ==
    dirty # {"pending"} =>
        /\ Range(stagedChangeIds) \subseteq Range(PendingIds(pendingChanges))
        /\ \A i, j \in 1..Len(stagedChangeIds) :
               stagedChangeIds[i] = stagedChangeIds[j] => i = j

\* A reconciliation has dropped a staged id that is no longer pending and kept
\* another one.
C8_Witness ==
    /\ dirty = {}
    /\ Len(stagedChangeIds) > 0
    /\ seenChangeIdsRef = Range(PendingIds(pendingChanges))
    /\ Len(futureRef) > 0
    /\ Len(historyRef) > 0

(***************************************************************************)
(* computePendingChanges on its own: the graphs and baselines it is given  *)
(* are drawn from lists of at most two nodes and two edges with unique     *)
(* ids, in either order, and the diff effect applies it.                   *)
(***************************************************************************)
DiffNode(id, label, x) ==
    attachNodeType(
        [id |-> id, type |-> "descriptive", position |-> [x |-> x, y |-> 0],
         data |-> [label |-> label, notes |-> ""], style |-> DEFAULT_NODE_STYLE])

\* A node of another width (a resized or pasted node).
Resized(node) == Put(node, "style", [width |-> "300", minHeight |-> "80"])

DiffNodes ==
    {DiffNode("a", "x", 0), DiffNode("a", "y", 0), DiffNode("a", "x", 1),
     DiffNode("B", "x", 0), DiffNode("B", "y", 0), Resized(DiffNode("B", "x", 0))}

DiffEdges ==
    {[id |-> id, source |-> conn[1], target |-> conn[2]] :
        id \in EdgeIds, conn \in {<<"a", "B">>, <<"B", "a">>}}

\* The lists of at most two entities with different ids.
ListsOf(entities) ==
    {<< >>} \cup {<<v>> : v \in entities}
        \cup {pair \in {<<v, w>> : v \in entities, w \in entities} : pair[1].id # pair[2].id}

InitDiff ==
    /\ nodes \in ListsOf(DiffNodes)
    /\ edges \in ListsOf(DiffEdges)
    /\ lastSyncedNodes \in ListsOf(DiffNodes)
    /\ lastSyncedEdges \in ListsOf(DiffEdges)
    /\ pendingChanges = << >>
    /\ stagedChangeIds = << >>
    /\ lastSyncedAt = NoNumber
    /\ lastSyncedVersion = NoNumber
    /\ isSyncing = FALSE
    /\ syncError = Null
    /\ selectedNodeId = Null
    /\ selectedNodeIds = << >>
    /\ historyRef = << >>
    /\ futureRef = << >>
    /\ prevGraphRef = cloneGraphState(<< >>, << >>)
    /\ isRestoringRef = FALSE
    /\ isDraggingRef = FALSE
    /\ dragStartSnapshotRef = << >>
    /\ skipHistoryOnceRef = FALSE
    /\ seenChangeIdsRef = {}
    /\ inflight = << >>
    /\ dirty = {"graph"}
    /\ act = NoAct
    /\ steps = 0
    /\ commitsOk = 0
    /\ userUnstaged = {}
    /\ budget = MaxSteps
    /\ trail = NoTrail

\* The diff effect alone.
diffEffect ==
    /\ dirty = {"graph"}
    /\ pendingChanges' = computePendingChanges(nodes, edges, lastSyncedNodes, lastSyncedEdges)
    /\ dirty' = {}
    /\ UNCHANGED <<graphVars, baseVars, stagedChangeIds, seenChangeIdsRef, syncVars, selVars,
                   histVars, dragVars, act, steps, commitsOk, userUnstaged>>

NextDiff == diffEffect /\ Quiet

SpecDiff == InitDiff /\ [][NextDiff]_vars

\* The entries of the pending list under one change id.
EntriesOf(cid) == {i \in 1..Len(pendingChanges) : pendingChanges[i].id = cid}

\* The pending list holds, for the entity id of one kind, exactly the entry that the
\* live list and the baseline call for.
ExactEntry(kind, id, live, base, current, previous) ==
    LET cid == kind \o ":" \o id
        common == {"id", "kind", "changeType", kind \o "Id"}
        AsExpected(changeType, fields) ==
            /\ Cardinality(EntriesOf(cid)) = 1
            /\ \A i \in EntriesOf(cid) :
                   /\ pendingChanges[i].kind = kind
                   /\ pendingChanges[i].changeType = changeType
                   /\ pendingChanges[i][kind \o "Id"] = id
                   /\ DOMAIN pendingChanges[i] = common \cup fields
                   /\ current \in fields => pendingChanges[i][current] = MapGet(live, id)
                   /\ previous \in fields => pendingChanges[i][previous] = MapGet(base, id)
    IN  IF MapHas(live, id) /\ ~MapHas(base, id) THEN AsExpected("added", {current})
        ELSE IF ~MapHas(live, id) /\ MapHas(base, id) THEN AsExpected("removed", {previous})
        ELSE IF MapHas(live, id) /\ MapHas(base, id)
                /\ ~(IF kind = "node" THEN isNodeEqual(MapGet(live, id), MapGet(base, id))
                     ELSE isEdgeEqual(MapGet(live, id), MapGet(base, id)))
        THEN AsExpected("modified", {current, previous})
        ELSE EntriesOf(cid) = {}

\* C9: for graphs with unique ids the pending list has exactly one entry per id that
\* is added (in live only), removed (in the baseline only) or modified (in both and
\* not loosely equal) and no other entry; the entry's id is "node:<id>" or
\* "edge:<id>"; an added entry carries only the current entity, a removed entry only
\* the previous one, a modified entry both.
C9_DiffIsExact ==
    dirty = {} =>
        /\ \A id \in NodeIds :
               ExactEntry("node", id, nodes, lastSyncedNodes, "currentNode", "previousNode")
        /\ \A id \in EdgeIds :
               ExactEntry("edge", id, edges, lastSyncedEdges, "currentEdge", "previousEdge")
        /\ \A i \in 1..Len(pendingChanges) :
               pendingChanges[i].id \in
                   {"node:" \o id : id \in NodeIds} \cup {"edge:" \o id : id \in EdgeIds}

\* The diff of a graph has an added, a removed and a modified entry, and a node that
\* only moved has none.
C9_Witness ==
    /\ dirty = {}
    /\ \E i, j, k \in 1..Len(pendingChanges) :
           /\ pendingChanges[i].changeType = "added"
           /\ pendingChanges[j].changeType = "removed"
           /\ pendingChanges[k].changeType = "modified"
    /\ \E i \in 1..Len(nodes), j \in 1..Len(lastSyncedNodes) :
           /\ nodes[i].id = lastSyncedNodes[j].id
           /\ nodes[i] # lastSyncedNodes[j]
           /\ EntriesOf("node:" \o nodes[i].id) = {}

\* C10: every node change comes before every edge change and, within each kind, the
\* entries are in ascending order of change id (the order of the ids as strings).
C10_SortedByChangeId ==
    dirty = {} =>
        \A i, j \in 1..Len(pendingChanges) :
            i < j =>
                IF pendingChanges[i].kind = pendingChanges[j].kind
                THEN CodeUnit[EntityIdOf(pendingChanges[i])]
                         < CodeUnit[EntityIdOf(pendingChanges[j])]
                ELSE pendingChanges[i].kind = "node"

(***************************************************************************)
(* Revert.                                                                 *)
(***************************************************************************)
\* The step in which handleRevertChange reverts a pending change.
RevertStep == dirty = {} /\ dirty' = {"graph", "pending"}

\* The ids of the pending changes that the step takes out of the pending list.
RevertedIds == Range(PendingIds(pendingChanges)) \ Range(PendingIds(pendingChanges'))

\* The pending list of an idle editor is the diff of the live graph and the baseline.
PendingIsDiff ==
    dirty = {} =>
        pendingChanges = computePendingChanges(nodes, edges, lastSyncedNodes, lastSyncedEdges)

\* C11: when handleRevertChange(c.id) is applied for a pending change c of the diff of
\* (live, baseline), the diff of the resulting live graph against the same baseline
\* has no entry whose id is c.id, whether c is an added, modified or removed node or
\* edge.
C11_RevertedChangeLeavesDiff ==
    /\ []PendingIsDiff
    /\ [][RevertStep =>
             /\ UNCHANGED <<lastSyncedNodes, lastSyncedEdges>>
             /\ Cardinality(RevertedIds) = 1
             /\ \A id \in RevertedIds :
                    ~Includes(PendingIds(computePendingChanges(
                                  nodes', edges', lastSyncedNodes, lastSyncedEdges)), id)]_vars

\* A modified edge (removed, then connected the other way round under its id) has
\* just been reverted.
C11_Witness ==
    /\ dirty = {"graph", "pending"}
    /\ edges = initialEdges
    /\ nodes = seededInitialNodes
    /\ Len(historyRef) = 2
    /\ Len(prevGraphRef.edges) = 1
    /\ prevGraphRef.edges[1].source = "B"
    /\ pendingChanges = << >>

(***************************************************************************)
(* Calls without effect.  The editor in which undo, redo and                *)
(* handleRevertChange record their call, so that a call that returns at    *)
(* once is a step of its own.                                              *)
(***************************************************************************)
NextCalls ==
    \/ \E eager \in BOOLEAN : RunEffects(eager) /\ Quiet
    \/ \E id \in NodeIds : onNodeClick(id) /\ Quiet
    \/ \E id \in NodeIds : onPaneContextMenu(id) /\ Quiet
    \/ \E label \in Labels : handleSaveNode(label) /\ Quiet
    \/ \E id \in NodeIds : deleteNode(id) /\ Quiet
    \/ \E id \in EdgeIds : deleteEdge(id) /\ Quiet
    \/ \E id \in EdgeIds, conn \in Connections : addSuggestedEdge(id, conn[1], conn[2]) /\ Quiet
    \/ \E id \in NodeIds : onNodeDragStart(id) /\ Quiet
    \/ \E x \in Positions : onNodesChangePosition(x) /\ Quiet
    \/ \E lastChange \in BOOLEAN : onNodeDragStop(lastChange) /\ Quiet
    \/ undoAs([name |-> "undo"]) /\ Quiet
    \/ redoAs([name |-> "redo"]) /\ Quiet
    \/ \E id \in Range(PendingIds(pendingChanges)) : handleToggleStage(id) /\ Quiet
    \/ handleStageAll /\ Quiet
    \/ handleUnstageAll /\ Quiet
    \/ \E id \in ChangeIds : handleRevertChangeAs(id, [name |-> "revert", id |-> id]) /\ Quiet
    \/ \E button \in {"top", "panel"} : handleSync(button) /\ Quiet
    \/ \E i \in 1..Len(inflight), outcome \in SuccessOutcomes : syncSucceeded(i, outcome) /\ Quiet
    \/ \E i \in 1..Len(inflight), outcome \in FailureOutcomes : syncFailed(i, outcome) /\ Quiet

SpecCalls == Init /\ [][NextCalls]_vars

\* The state of the component: everything but the records kept for the properties.
componentVars ==
    <<nodes, edges, lastSyncedNodes, lastSyncedEdges, pendingChanges, stagedChangeIds,
      lastSyncedAt, lastSyncedVersion, isSyncing, syncError, selectedNodeId,
      selectedNodeIds, historyRef, futureRef, prevGraphRef, isRestoringRef,
      isDraggingRef, dragStartSnapshotRef, skipHistoryOnceRef, seenChangeIdsRef,
      inflight, dirty>>

\* A step that is a revert of an id that is not pending, an undo with an empty
\* history or a redo with an empty future.
NoOpCall ==
    /\ dirty = {}
    /\ \/ act'.name = "undo" /\ Len(historyRef) = 0
       \/ act'.name = "redo" /\ Len(futureRef) = 0
       \/ act'.name = "revert" /\ ~Includes(PendingIds(pendingChanges), act'.id)

\* C12: reverting a change id that is not in the pending list, undo with an empty
\* history and redo with an empty future each leave the whole state of the component
\* as it was (live graph, baseline, pending, staging, history, future, selection, and
\* no effect is made to run).
C12_NoOpCallsChangeNothing == [][NoOpCall => UNCHANGED componentVars]_vars

\* Undo has been called with an empty history while the future held a snapshot and
\* changes were pending.
C12_Witness ==
    /\ act.name = "undo"
    /\ dirty = {}
    /\ Len(historyRef) = 0
    /\ Len(futureRef) > 0
    /\ Len(pendingChanges) > 0

(***************************************************************************)
(* Undo / redo duality.  The editor in which the graph is edited in the    *)
(* Idle state (no drag), undone and redone, with a trail of the graphs the  *)
(* mutations produced: trail.graphs[1] is the initial graph,               *)
(* trail.graphs[k + 1] the graph after the k-th mutation that is still on   *)
(* the trail, and trail.at the place undo and redo have moved to.          *)
(***************************************************************************)
InitHistory ==
    InitWith(MaxHistorySteps,
             [graphs |-> <<[nodes |-> seededInitialNodes, edges |-> initialEdges]>>, at |-> 1],
             << >>)

\* A mutation that changes the graph under strict equality continues the trail from
\* the place it is at; one that does not leaves the trail alone.
TrailMutated ==
    /\ trail' =
           IF areGraphsEqual(nodes, edges, nodes', edges') THEN trail
           ELSE [graphs |-> Append(SubSeq(trail.graphs, 1, trail.at),
                                   [nodes |-> nodes', edges |-> edges']),
                 at |-> trail.at + 1]
    /\ UNCHANGED budget

TrailUndone ==
    /\ trail' = IF trail.at = 1 THEN trail ELSE [trail EXCEPT !.at = @ - 1]
    /\ UNCHANGED budget

TrailRedone ==
    /\ trail' = IF trail.at = Len(trail.graphs) THEN trail ELSE [trail EXCEPT !.at = @ + 1]
    /\ UNCHANGED budget

NextHistory ==
    \/ \E eager \in BOOLEAN : RunEffects(eager) /\ Quiet
    \/ \E id \in NodeIds : onPaneContextMenu(id) /\ TrailMutated
    \/ \E label \in Labels : handleSaveNode(label) /\ TrailMutated
    \/ \E id \in NodeIds : deleteNode(id) /\ TrailMutated
    \/ \E id \in EdgeIds : deleteEdge(id) /\ TrailMutated
    \/ \E id \in EdgeIds, conn \in Connections :
           addSuggestedEdge(id, conn[1], conn[2]) /\ TrailMutated
    \/ undo /\ TrailUndone
    \/ redo /\ TrailRedone

SpecHistory == InitHistory /\ [][NextHistory]_vars

NoDrag == [phase |-> "none"]

InitDrag == InitWith(MaxSteps, NoDrag, << >>)

DragBegun ==
    /\ trail' =
           IF isDraggingRef THEN trail
           ELSE [phase |-> "dragging", graph |-> [nodes |-> nodes, edges |-> edges],
                 history |-> historyRef, future |-> futureRef, moves |-> 0]
    /\ UNCHANGED budget

DragMoved ==
    /\ trail' = IF trail.phase = "dragging" THEN [trail EXCEPT !.moves = @ + 1] ELSE trail
    /\ UNCHANGED budget

DragEnded ==
    /\ trail' =
           IF trail.phase = "dragging"
           THEN [phase |-> "stopped", graph |-> trail.graph, history |-> trail.history,
                 future |-> trail.future, moves |-> trail.moves,
                 changed |-> ~areGraphsEqual(trail.graph.nodes, trail.graph.edges,
                                             nodes, edges)]
           ELSE trail
    /\ UNCHANGED budget

OtherGesture ==
    /\ trail' = NoDrag
    /\ UNCHANGED budget

NextDrag ==
    \/ \E eager \in BOOLEAN : RunEffects(eager) /\ Quiet
    \/ \E id \in NodeIds : onNodeClick(id) /\ OtherGesture
    \/ \E id \in NodeIds : onPaneContextMenu(id) /\ OtherGesture
    \/ \E label \in Labels : handleSaveNode(label) /\ OtherGesture
    \/ \E id \in NodeIds : deleteNode(id) /\ OtherGesture
    \/ \E id \in EdgeIds : deleteEdge(id) /\ OtherGesture
    \/ \E id \in EdgeIds, conn \in Connections :
           addSuggestedEdge(id, conn[1], conn[2]) /\ OtherGesture
    \/ \E id \in NodeIds : onNodeDragStart(id) /\ DragBegun
    \/ \E x \in Positions : onNodesChangePosition(x) /\ DragMoved
    \/ \E lastChange \in BOOLEAN : onNodeDragStop(lastChange) /\ DragEnded
    \/ undo /\ OtherGesture
    \/ redo /\ OtherGesture
    \/ \E id \in Range(PendingIds(pendingChanges)) : handleToggleStage(id) /\ OtherGesture
    \/ handleStageAll /\ OtherGesture
    \/ handleUnstageAll /\ OtherGesture
    \/ \E id \in ChangeIds : handleRevertChange(id) /\ OtherGesture
    \/ \E button \in {"top", "panel"} : handleSync(button) /\ OtherGesture
    \/ \E i \in 1..Len(inflight), outcome \in SuccessOutcomes :
           syncSucceeded(i, outcome) /\ Quiet
    \/ \E i \in 1..Len(inflight), outcome \in FailureOutcomes :
           syncFailed(i, outcome) /\ Quiet

SpecDrag == InitDrag /\ [][NextDrag]_vars

\* C14: during a drag gesture the position updates add nothing to the history and
\* leave the future alone; once the gesture has stopped (and the render that follows
\* has run) the history is the one of the drag start and the future untouched if the
\* graph at the end is strictly equal to the graph at the start, and otherwise the
\* history has exactly one entry more, the drag-start snapshot, and the future is
\* empty, however many position updates there were.
C14_DragIsOneHistoryEntry ==
    /\ trail.phase = "dragging" =>
           /\ historyRef = trail.history
           /\ futureRef = trail.future
    /\ trail.phase = "stopped" =>
           IF trail.changed
           THEN /\ historyRef =
                       Append(trail.history,
                              cloneGraphState(trail.graph.nodes, trail.graph.edges))
                /\ futureRef = << >>
           ELSE /\ historyRef = trail.history
                /\ futureRef = trail.future

\* A node has been dragged away and back in two position updates, with a snapshot in
\* the history, and the render after the drag has run.
C14_Witness ==
    /\ trail.phase = "stopped"
    /\ trail.moves = 2
    /\ ~trail.changed
    /\ dirty = {}
    /\ ~skipHistoryOnceRef
    /\ Len(trail.history) = 1

(***************************************************************************)
(* The capacity of the stacks.  The editor after HISTORY_LIMIT edits that  *)
(* relabelled the first node in turn "y", "x", "y", ...: the graph is the   *)
(* initial one again and the history is full.                              *)
(***************************************************************************)
relabelled(node, label) ==
    attachNodeTypeWith(
        Put(Put(node, "type", getNodeTypeId(node)), "data",
            Put(Put(node.data, "label", label),
                "notes", Nullish(Field(node.data, "notes"), ""))),
        getNodeTypeId(node))

\* The snapshot the history effect pushed for the k-th of these edits.
snapshotBeforeEdit(k) ==
    cloneGraphState(
        [i \in 1..Len(seededInitialNodes) |->
            IF i = 1 THEN relabelled(seededInitialNodes[i], IF k % 2 = 1 THEN "x" ELSE "y")
            ELSE seededInitialNodes[i]],
        initialEdges)

fullHistory == [k \in 1..HISTORY_LIMIT |-> snapshotBeforeEdit(k)]

InitFull == InitWith(MaxSteps, NoTrail, fullHistory)

SpecFull == InitFull /\ [][Next]_vars

\* The history after a push of snapshot x: the oldest entry goes when it was full.
HistoryPushed(x) ==
    historyRef' = IF Len(historyRef) = HISTORY_LIMIT THEN Append(Tail(historyRef), x)
                  ELSE Append(historyRef, x)

\* The render in which the history effect records a mutation.
MutationRecorded ==
    /\ "graph" \in dirty
    /\ ~isRestoringRef /\ ~skipHistoryOnceRef /\ ~isDraggingRef
    /\ prevGraphRef' # prevGraphRef

\* The call of redo that restores a snapshot.
RedoStep == dirty = {} /\ isRestoringRef' /\ Len(futureRef') < Len(futureRef)

\* The end of a drag that changed the graph.
ChangedDragEnds ==
    /\ isDraggingRef /\ ~isDraggingRef'
    /\ ~areGraphsEqual(dragStartSnapshotRef[1].nodes, dragStartSnapshotRef[1].edges,
                       nodes, edges)

\* C15: the history and the future each hold at most HISTORY_LIMIT snapshots in
\* every reachable state, and each push onto a full history (a recorded mutation, a
\* redo, the end of a drag) removes its oldest entry and keeps the newer ones in
\* their order, below the snapshot pushed.
C15_StacksWithinCapacity ==
    /\ [](Len(historyRef) <= HISTORY_LIMIT /\ Len(futureRef) <= HISTORY_LIMIT)
    /\ [][/\ (MutationRecorded => HistoryPushed(prevGraphRef))
          /\ (RedoStep => HistoryPushed(cloneGraphState(nodes, edges)))
          /\ (ChangedDragEnds => HistoryPushed(dragStartSnapshotRef[1]))]_vars

\* A snapshot has been pushed onto the full history, which lost its oldest entry,
\* and undo has moved the newest one to the future.
C15_Witness ==
    /\ Len(historyRef) = HISTORY_LIMIT - 1
    /\ Len(futureRef) = 1
    /\ historyRef[1] = fullHistory[2]
    /\ dirty = {}

(***************************************************************************)
(* The baseline is written by successful commits only.                     *)
(***************************************************************************)
\* C16: lastSyncedNodes, lastSyncedEdges, lastSyncedVersion and lastSyncedAt change
\* only in the step that completes a successful commit: graph edits, drag events,
\* undo, redo, revert, toggle, stageAll, unstageAll, the start of a commit, a failed
\* commit and the effects leave all four as they are.
C16_OnlyCommitSuccessWritesBaseline ==
    [][baseVars' # baseVars =>
           /\ commitsOk' = commitsOk + 1
           /\ Len(inflight') = Len(inflight) - 1]_vars

\* An edit has been made, a commit of it has failed and the edit has been undone,
\* and the baseline is the initial one.
C16_Witness ==
    /\ commitsOk = 0
    /\ syncError # Null
    /\ Len(futureRef) = 1
    /\ dirty = {}
    /\ lastSyncedNodes = seededInitialNodes
    /\ lastSyncedEdges = initialEdges
    /\ lastSyncedVersion = NoNumber
    /\ lastSyncedAt = NoNumber

(***************************************************************************)
(* Loose and strict equality.                                              *)
(***************************************************************************)
\* The live node and the baseline node of one id differ, and in nothing but the
\* position or the style.
OnlyMovedOrRestyled(node, synced) ==
    /\ node.id = synced.id
    /\ node # synced
    /\ \A key \in (DOMAIN node \cup DOMAIN synced) \ {"position", "style"} :
           Field(node, key) = Field(synced, key)

\* C17: a node whose live and baseline values differ only in position or style has
\* no entry in the result of computePendingChanges, while areGraphsEqual of the live
\* graph and the baseline is false.
C17_MoveIsNotPendingButNotEqual ==
    dirty = {} =>
        \A i \in 1..Len(nodes), j \in 1..Len(lastSyncedNodes) :
            OnlyMovedOrRestyled(nodes[i], lastSyncedNodes[j]) =>
                /\ EntriesOf("node:" \o nodes[i].id) = {}
                /\ ~areGraphsEqual(lastSyncedNodes, lastSyncedEdges, nodes, edges)

\* The live graph is the baseline with one node moved and another resized, and the
\* diff is empty.
C17_Witness ==
    /\ dirty = {}
    /\ Len(nodes) = 2
    /\ Ids(nodes) = Ids(lastSyncedNodes)
    /\ \A i \in 1..2 : OnlyMovedOrRestyled(nodes[i], MapGet(lastSyncedNodes, nodes[i].id))
    /\ edges = lastSyncedEdges
    /\ pendingChanges = << >>

(***************************************************************************)
(* The shape of the commit response.                                       *)
(***************************************************************************)
\* The outcomes in which the response has a success status and a body that parses
\* as JSON but is not of the shape {files: [...]}: an object without files or with
\* files that is no array, a number or a string ("otherShape"), and null
\* ("nullBody").  The failure path reports its outcome in syncError.
OtherShapeOutcomes == {"otherShape", "nullBody"}

\* C18: a response with a success status and a parsable body of another shape than
\* {files: [...]}, null included, is handled as a successful commit with an empty
\* file list (baseline advanced, version incremented, staging cleared): no commit
\* ends on the failure path with such a response, so no error is reported for one.
C18_OtherShapeIsNoError == syncError \notin OtherShapeOutcomes

(***************************************************************************)
(* What a commit carries.                                                  *)
(***************************************************************************)
\* The live entity a change is about, by kind.
LiveListOf(kind, ns, es) == IF kind = "node" THEN ns ELSE es

LooselyEqual(kind, a, b) == IF kind = "node" THEN isNodeEqual(a, b) ELSE isEdgeEqual(a, b)

\* The request of the handleSync call that starts in this step carries exactly the
\* pending changes that are staged now, each with the live value of its entity.
CarriesStagedChanges(entry) ==
    /\ Range(PendingIds(entry.changes))
           = Range(stagedChangeIds) \cap Range(PendingIds(pendingChanges))
    /\ \A i \in 1..Len(entry.changes) :
           LET change == entry.changes[i]
               live == LiveListOf(change.kind, nodes, edges)
           IN  /\ \E j \in 1..Len(pendingChanges) : pendingChanges[j] = change
               /\ IF change.changeType = "removed" THEN ~MapHas(live, EntityIdOf(change))
                  ELSE /\ MapHas(live, EntityIdOf(change))
                       /\ CurrentEntityOf(change) = MapGet(live, EntityIdOf(change))

\* After the commit that carried the change, the change id is pending exactly when
\* the live entity is no longer what the commit carried.
PendingIffEditedSince(change, ns, es, pending) ==
    LET live == LiveListOf(change.kind, ns, es)
        id == EntityIdOf(change)
        edited == IF change.changeType = "removed" THEN MapHas(live, id)
                  ELSE \/ ~MapHas(live, id)
                       \/ ~LooselyEqual(change.kind, MapGet(live, id), CurrentEntityOf(change))
    IN  Includes(PendingIds(pending), change.id) <=> edited

\* C19: a handleSync call carries exactly the pending changes staged when it is
\* invoked, with the entity values of that moment; nothing that happens while the
\* request is outstanding (edits, toggles, diff recomputations, other commits)
\* alters what it carries; a successful completion folds exactly these changes; and
\* after it an entity the commit carried is pending exactly if it was edited since.
C19_CommitFoldsWhatWasSent ==
    [][/\ Len(inflight') > Len(inflight) =>
              /\ inflight' = Append(inflight, inflight'[Len(inflight')])
              /\ CarriesStagedChanges(inflight'[Len(inflight')])
       /\ Len(inflight') <= Len(inflight) =>
              \/ inflight' = inflight
              \/ \E i \in 1..Len(inflight) :
                     /\ inflight' = RemoveAt(inflight, i)
                     /\ commitsOk' = commitsOk + 1 =>
                            /\ FoldedById(lastSyncedNodes, lastSyncedNodes',
                                          inflight[i].changes, "node")
                            /\ FoldedById(lastSyncedEdges, lastSyncedEdges',
                                          inflight[i].changes, "edge")
       /\ CommitSettles =>
              \A i \in 1..Len(act.changes) :
                  PendingIffEditedSince(act.changes[i], nodes', edges', pendingChanges')]_vars

\* A commit that carried an added node has succeeded after the node was relabelled
\* during the flight: the baseline holds the node as it was sent and the node is
\* pending as modified.
C19_Witness ==
    /\ act.name = "syncSucceeded"
    /\ dirty = {"pending"}
    /\ \E i \in 1..Len(act.changes), j \in 1..Len(pendingChanges) :
           /\ act.changes[i].changeType = "added"
           /\ act.changes[i].kind = "node"
           /\ pendingChanges[j].id = act.changes[i].id
           /\ pendingChanges[j].changeType = "modified"
           /\ pendingChanges[j].previousNode = act.changes[i].currentNode

(***************************************************************************)
(* The seen change ids.                                                    *)
(***************************************************************************)
\* C20: the set of seen change ids only grows across diff recomputations: an id that
\* has appeared in a pending list stays seen (so that a change id the user unstaged,
\* which leaves the pending list and comes back, is not staged automatically again).
C20_SeenIdsOnlyGrow == [][seenChangeIdsRef \subseteq seenChangeIdsRef']_vars

(***************************************************************************)
(* What the history effect records.                                        *)
(***************************************************************************)
\* The render that follows a state update of the graph while no drag gesture and no
\* restore of undo / redo is in progress.
RenderOutsideDragAndRestore == "graph" \in dirty /\ ~isDraggingRef /\ ~isRestoringRef

\* With no effect pending and no drag in progress, the previous-graph reference point
\* is the live graph: what a mutation that follows finds there is the graph before it.
PrevIsLiveWhenIdle == (dirty = {} /\ ~isDraggingRef) => prevGraphRef = cloneGraphState(nodes, edges)

\* C21: every mutation of the graph made while no drag gesture and no restore is in
\* progress, and that changes the graph under strict equality, pushes exactly one
\* entry, the graph before the mutation, onto the history and empties the future; a
\* state update that leaves the graph strictly equal pushes nothing and leaves the
\* future alone.  This holds for the first mutation after a drag has ended too.
C21_MutationPushesOneEntry ==
    /\ []PrevIsLiveWhenIdle
    /\ [][RenderOutsideDragAndRestore =>
             IF areGraphsEqual(prevGraphRef.nodes, prevGraphRef.edges, nodes, edges)
             THEN UNCHANGED <<historyRef, futureRef>>
             ELSE /\ historyRef' = Append(historyRef, prevGraphRef)
                  /\ futureRef' = << >>]_vars

(***************************************************************************)
(* Revert and undo.  The editor with a record of the last revert that      *)
(* changed the graph while the history was in its Idle state (no drag, no   *)
(* restore, no skip signal pending): the change reverted, the graph and    *)
(* the history before it; after the undo that follows it, that it was      *)
(* undone.  Any other gesture, and a commit that moves the baseline, ends   *)
(* the record.                                                             *)
(***************************************************************************)
NoRevert == [phase |-> "none"]

InitRevert == InitWith(MaxSteps, NoRevert, << >>)

RevertRecorded(changeId) ==
    /\ trail' =
           IF /\ Includes(PendingIds(pendingChanges), changeId)
              /\ ~skipHistoryOnceRef
              /\ ~areGraphsEqual(nodes, edges, nodes', edges')
           THEN [phase |-> "reverted",
                 change |-> findChange(pendingChanges, changeId),
                 graph |-> [nodes |-> nodes, edges |-> edges],
                 history |-> historyRef]
           ELSE NoRevert
    /\ UNCHANGED budget

UndoRecorded ==
    /\ trail' = IF trail.phase = "reverted" THEN [trail EXCEPT !.phase = "undone"]
                ELSE NoRevert
    /\ UNCHANGED budget

RecordEnded ==
    /\ trail' = NoRevert
    /\ UNCHANGED budget

NextRevert ==
    \/ \E eager \in BOOLEAN : RunEffects(eager) /\ Quiet
    \/ \E id \in NodeIds : onNodeClick(id) /\ RecordEnded
    \/ \E id \in NodeIds : onPaneContextMenu(id) /\ RecordEnded
    \/ \E label \in Labels : handleSaveNode(label) /\ RecordEnded
    \/ \E id \in NodeIds : deleteNode(id) /\ RecordEnded
    \/ \E id \in EdgeIds : deleteEdge(id) /\ RecordEnded
    \/ \E id \in EdgeIds, conn \in Connections :
           addSuggestedEdge(id, conn[1], conn[2]) /\ RecordEnded
    \/ \E id \in NodeIds : onNodeDragStart(id) /\ RecordEnded
    \/ \E x \in Positions : onNodesChangePosition(x) /\ RecordEnded
    \/ \E lastChange \in BOOLEAN : onNodeDragStop(lastChange) /\ RecordEnded
    \/ undo /\ UndoRecorded
    \/ redo /\ RecordEnded
    \/ \E id \in Range(PendingIds(pendingChanges)) : handleToggleStage(id) /\ RecordEnded
    \/ handleStageAll /\ RecordEnded
    \/ handleUnstageAll /\ RecordEnded
    \/ \E id \in ChangeIds : handleRevertChangeAs(id, NoAct) /\ RevertRecorded(id)
    \/ \E button \in {"top", "panel"} : handleSync(button) /\ RecordEnded
    \/ \E i \in 1..Len(inflight), outcome \in SuccessOutcomes :
           syncSucceeded(i, outcome) /\ RecordEnded
    \/ \E i \in 1..Len(inflight), outcome \in FailureOutcomes :
           syncFailed(i, outcome) /\ Quiet

SpecRevert == InitRevert /\ [][NextRevert]_vars

\* The pending list holds a change of the id and change type of the given one.
PendingAgain(change) ==
    \E i \in 1..Len(pendingChanges) :
        /\ pendingChanges[i].id = change.id
        /\ pendingChanges[i].changeType = change.changeType

onSelectionChange(selected) ==
    /\ Idle
    /\ PointerFree
    /\ CanStep
    /\ IF Len(selected) > 0
       THEN /\ selectedNodeId' = selected[1]
            /\ selectedNodeIds' = selected
       ELSE /\ selectedNodeId' = Null
            /\ selectedNodeIds' = << >>
    /\ steps' = steps + 1
    /\ act' = NoAct
    /\ UNCHANGED <<graphVars, baseVars, stageVars, syncVars, histVars, dragVars, dirty,
                   commitsOk, userUnstaged>>

\* The selections React Flow can report: the ids of some of the live nodes, in the
\* order of the node list.
Selections ==
    {SeqMap(LAMBDA node : node.id, SelectSeq(nodes, LAMBDA node : node.id \in chosen)) :
        chosen \in SUBSET Ids(nodes)}

NextSelect ==
    \/ \E eager \in BOOLEAN : RunEffects(eager) /\ Quiet
    \/ \E selected \in Selections : onSelectionChange(selected) /\ Quiet
    \/ \E id \in NodeIds : onPaneContextMenu(id) /\ Quiet
    \/ \E id \in NodeIds : deleteNode(id) /\ Quiet
    \/ undo /\ Quiet
    \/ redo /\ Quiet

InitSelect == InitWith(MaxHistorySteps, NoTrail, << >>)

SpecSelect == InitSelect /\ [][NextSelect]_vars

\* The call of undo or redo that applies a snapshot.
RestoreStep == dirty = {} /\ ~isRestoringRef /\ isRestoringRef'

\* C23: after every undo or redo that applies a snapshot, every id in selectedNodeIds
\* is the id of a node of the restored graph: the ids that were selected and are in
\* the restored graph stay selected, in their order, and if none remains the
\* selection is the first node of the restored graph, or empty when the restored
\* graph has no nodes.
C23_SelectionRepaired ==
    [][RestoreStep =>
           LET kept == SelectSeq(selectedNodeIds, LAMBDA id : id \in Ids(nodes'))
           IN  /\ Range(selectedNodeIds') \subseteq Ids(nodes')
               /\ selectedNodeIds' =
                      IF Len(kept) > 0 THEN kept
                      ELSE IF Len(nodes') > 0 THEN <<nodes'[1].id>>
                      ELSE << >>]_vars

\* Both nodes have been deleted and a node added, which was selected, and undo has
\* restored the empty graph: the selection is empty.
C23_Witness ==
    /\ isRestoringRef
    /\ dirty = {"graph"}
    /\ Len(nodes) = 0
    /\ selectedNodeIds = << >>
    /\ Len(futureRef) = 1
    /\ Len(futureRef[1].nodes) = 1
    /\ steps = 4

\* Two nodes were selected, one of which the restored graph does not hold, and undo
\* has kept the other one selected, which is not the first node of the graph.
C23_WitnessKept ==
    /\ isRestoringRef
    /\ dirty = {"graph"}
    /\ Ids(nodes) = {"a", "B"}
    /\ selectedNodeIds = <<"B">>
    /\ selectedNodeId = "B"
    /\ Len(futureRef) = 1
    /\ "c" \in Ids(futureRef[1].nodes)
    /\ steps = 3

(***************************************************************************)
(* The commit-in-flight flag.                                              *)
(***************************************************************************)
\* C24: isSyncing is true in every state in which a commit request is outstanding
\* and false in every state in which none is: it is set when handleSync starts a
\* request and cleared when the request completes, on success and on failure alike.
C24_IsSyncingIffOutstanding == isSyncing <=> Len(inflight) > 0

(***************************************************************************)
(* Edges and their endpoints.                                              *)
(***************************************************************************)
\* C25: in every reachable state every edge of the live graph has a source and a
\* target that are ids of nodes of the live graph; reverting an added node, reverting
\* a removed edge, undo and redo leave no edge whose endpoint node does not exist.
C25_EdgesHaveEndpoints ==
    \A i \in 1..Len(edges) : edges[i].source \in Ids(nodes) /\ edges[i].target \in Ids(nodes)

(***************************************************************************)
(* The pending list is the diff.                                           *)
(***************************************************************************)
\* C26: once the diff effect has run after an action (only the staging reconcile, or
\* no effect at all, is still to run), pendingChanges is computePendingChanges of the
\* live graph and the baseline; so it is after a revert, whose removal of the change
\* from the pending list the recomputation confirms or corrects, and after a commit.
C26_PendingListIsTheDiff ==
    dirty \subseteq {"pending"} =>
        pendingChanges = computePendingChanges(nodes, edges, lastSyncedNodes, lastSyncedEdges)

\* An edge was removed and connected the other way round, its change was reverted and
\* the effects have run: the pending list is empty and the history holds the graph
\* before the revert.
C26_Witness ==
    /\ dirty = {}
    /\ edges = initialEdges
    /\ nodes = seededInitialNodes
    /\ Len(historyRef) = 3
    /\ Len(historyRef[3].edges) = 1
    /\ historyRef[3].edges[1].source = "B"
    /\ pendingChanges = << >>
    /\ lastSyncedEdges = initialEdges

(***************************************************************************)
(* shallowEqualObjects and isNodeEqual on their own: the diff of a live    *)
(* node against a baseline node of the same id, whose types and data maps  *)
(* are drawn from maps of up to three keys, each absent, undefined or a    *)
(* string.                                                                 *)
(***************************************************************************)
DataKeys == {"label", "notes", "hint"}

DataValues == [label |-> {"x", "y"}, notes |-> {"", Undefined}, hint |-> {"h", Undefined}]

DataMaps ==
    {data \in UNION {[keys -> {"x", "y", "", "h", Undefined}] : keys \in SUBSET DataKeys} :
        \A key \in DOMAIN data : data[key] \in DataValues[key]}

DataNodes ==
    {[id |-> "a", type |-> type, position |-> [x |-> 0, y |-> 0], data |-> data,
      style |-> DEFAULT_NODE_STYLE] : type \in {"logic", "descriptive"}, data \in DataMaps}

InitData ==
    /\ nodes \in {<<node>> : node \in DataNodes}
    /\ edges = << >>
    /\ lastSyncedNodes \in {<<node>> : node \in DataNodes}
    /\ lastSyncedEdges = << >>
    /\ pendingChanges = << >>
    /\ stagedChangeIds = << >>
    /\ lastSyncedAt = NoNumber
    /\ lastSyncedVersion = NoNumber
    /\ isSyncing = FALSE
    /\ syncError = Null
    /\ selectedNodeId = Null
    /\ selectedNodeIds = << >>
    /\ historyRef = << >>
    /\ futureRef = << >>
    /\ prevGraphRef = cloneGraphState(<< >>, << >>)
    /\ isRestoringRef = FALSE
    /\ isDraggingRef = FALSE
    /\ dragStartSnapshotRef = << >>
    /\ skipHistoryOnceRef = FALSE
    /\ seenChangeIdsRef = {}
    /\ inflight = << >>
    /\ dirty = {"graph"}
    /\ act = NoAct
    /\ steps = 0
    /\ commitsOk = 0
    /\ userUnstaged = {}
    /\ budget = MaxSteps
    /\ trail = NoTrail

SpecData == InitData /\ [][NextDiff]_vars

\* The two maps have the same set of keys and, under every key, identical values.
SameKeysAndValues(a, b) == DOMAIN a = DOMAIN b /\ \A key \in DOMAIN a : a[key] = b[key]

\* C27: shallowEqualObjects(a, b) is true exactly when a and b have the same set of
\* keys and identical values under every key (two maps with as many keys but other
\* key names are unequal, also when the keys that differ hold undefined); and
\* isNodeEqual, by which the diff decides whether a node is modified, is true exactly
\* when the types match and the data maps are equal in this sense.
C27_ShallowEqualIsSameKeysAndValues ==
    LET node == nodes[1]
        synced == lastSyncedNodes[1]
    IN  dirty = {} =>
            /\ shallowEqualObjects(node.data, synced.data)
                   <=> SameKeysAndValues(node.data, synced.data)
            /\ EntriesOf("node:" \o node.id) = {}
                   <=> (node.type = synced.type /\ SameKeysAndValues(node.data, synced.data))

(***************************************************************************)
(* Object identity.  The editor with a record of which node and edge       *)
(* objects each graph holds: JavaScript arrays hold references, a spread   *)
(* or JSON.parse makes new objects, and everything else hands the same     *)
(* objects on.  An object is a number; a graph of the record maps the id   *)
(* of each of its nodes and edges to the object that is held under it.     *)
(* The record has the objects of the live graph, of the baseline, of the   *)
(* previous-graph reference, of the drag-start slot, of each snapshot of   *)
(* the two stacks, and of the 'current' entities of the changes that each  *)
(* outstanding commit carries.                                             *)
(***************************************************************************)
ObjectsOf(graph) ==
    {graph.nodes[id] : id \in DOMAIN graph.nodes} \cup {graph.edges[id] : id \in DOMAIN graph.edges}

ObjectsIn(graphs) == UNION {ObjectsOf(graphs[i]) : i \in 1..Len(graphs)}

UsedObjects(heap) ==
    ObjectsOf(heap.live) \cup ObjectsOf(heap.base) \cup ObjectsOf(heap.prev)
        \cup ObjectsIn(heap.drag) \cup ObjectsIn(heap.hist) \cup ObjectsIn(heap.fut)
        \cup ObjectsIn(heap.flight)

\* The k-th object that is not in use: what an allocation returns.
NewObject(used, k) ==
    CHOOSE r \in 1..(Cardinality(used) + k) :
        r \notin used /\ Cardinality({q \in 1..r : q \notin used}) = k

\* The place of an id among all ids (one allocation per id and step).
Rank(id) == Cardinality({other \in NodeIds \cup EdgeIds : CodeUnit[other] < CodeUnit[id]}) + 1

AllocationsPerCopy == Cardinality(NodeIds \cup EdgeIds)

\* cloneGraphState(ns, es): every node and edge of the copy is a new object.
clonedObjects(ns, es, used, offset) ==
    [nodes |-> [id \in Ids(ns) |-> NewObject(used, offset + Rank(id))],
     edges |-> [id \in Ids(es) |-> NewObject(used, offset + Rank(id))]]

\* useState(seededInitialNodes) twice, useState(initialEdges) twice, and
\* useRef(cloneGraphState(seededInitialNodes, initialEdges)).
initialObjects == [nodes |-> [id \in Ids(seededInitialNodes) |-> Rank(id)],
                   edges |-> [id \in Ids(initialEdges) |-> Rank(id)]]

initialHeap ==
    [live |-> initialObjects,
     base |-> initialObjects,
     prev |-> clonedObjects(seededInitialNodes, initialEdges, ObjectsOf(initialObjects), 0),
     drag |-> << >>, hist |-> << >>, fut |-> << >>, flight |-> << >>]

InitAlias == InitWith(MaxSteps, initialHeap, << >>)

\* The live graph after a state update made with map / filter / spread: an entity
\* that the update replaced or added is a new object, every other one is the object
\* it was.
liveObjectsAfter(replaced, offset) ==
    [nodes |-> [id \in Ids(nodes') |->
                   IF id \in DOMAIN trail.live.nodes /\ id \notin replaced
                   THEN trail.live.nodes[id]
                   ELSE NewObject(UsedObjects(trail), offset + Rank(id))],
     edges |-> [id \in Ids(edges') |->
                   IF id \in DOMAIN trail.live.edges /\ id \notin replaced
                   THEN trail.live.edges[id]
                   ELSE NewObject(UsedObjects(trail), offset + Rank(id))]]

ObjectsEdited(replaced) ==
    /\ trail' = [trail EXCEPT !.live = liveObjectsAfter(replaced, 0)]
    /\ UNCHANGED budget

ObjectsAtDragStart ==
    /\ trail' = IF isDraggingRef THEN trail
                ELSE [trail EXCEPT !.drag = <<clonedObjects(nodes, edges, UsedObjects(trail), 0)>>]
    /\ UNCHANGED budget

\* onNodeDragStop: the end snapshot is a copy; the drag-start snapshot goes to the
\* history as the object it is; the last position change replaces the dragged node.
ObjectsAtDragStop(lastChange) ==
    /\ LET changed == ~areGraphsEqual(dragStartSnapshotRef[1].nodes,
                                      dragStartSnapshotRef[1].edges, nodes, edges)
       IN  trail' =
               [trail EXCEPT
                   !.hist = IF changed THEN LastN(Append(@, trail.drag[1]), HISTORY_LIMIT) ELSE @,
                   !.fut = IF changed THEN << >> ELSE @,
                   !.prev = clonedObjects(nodes, edges, UsedObjects(trail), 0),
                   !.drag = << >>,
                   !.live = IF lastChange
                            THEN liveObjectsAfter({selectedNodeId}, AllocationsPerCopy)
                            ELSE @]
    /\ UNCHANGED budget

\* An undo that puts the live graph itself, not a copy, onto the future.
ObjectsUndoneWithoutCopy ==
    /\ trail' =
           IF Len(historyRef) = 0 THEN trail
           ELSE [trail EXCEPT
                    !.live = trail.hist[Len(trail.hist)],
                    !.hist = SubSeq(@, 1, Len(@) - 1),
                    !.fut = Append(@, trail.live)]
    /\ UNCHANGED budget

\* undo: the popped snapshot becomes the live graph; a copy of the live graph goes to
\* the future.
ObjectsUndone ==
    /\ trail' =
           IF Len(historyRef) = 0 THEN trail
           ELSE [trail EXCEPT
                    !.live = trail.hist[Len(trail.hist)],
                    !.hist = SubSeq(@, 1, Len(@) - 1),
                    !.fut = Append(@, clonedObjects(nodes, edges, UsedObjects(trail), 0))]
    /\ UNCHANGED budget

ObjectsRedone ==
    /\ trail' =
           IF Len(futureRef) = 0 THEN trail
           ELSE [trail EXCEPT
                    !.live = trail.fut[Len(trail.fut)],
                    !.fut = SubSeq(@, 1, Len(@) - 1),
                    !.hist = LastN(Append(@, clonedObjects(nodes, edges, UsedObjects(trail), 0)),
                                   HISTORY_LIMIT)]
    /\ UNCHANGED budget

\* handleRevertChange: a node comes back through attachNodeType, which makes a new
\* object; an edge comes back as change.previousEdge, the object the baseline holds.
ObjectsReverted(changeId) ==
    /\ trail' =
           IF ~Includes(PendingIds(pendingChanges), changeId) THEN trail
           ELSE LET change == findChange(pendingChanges, changeId)
                IN  IF change.kind = "node"
                    THEN [trail EXCEPT !.live = liveObjectsAfter(
                              IF change.changeType = "modified" THEN {change.nodeId} ELSE {}, 0)]
                    ELSE IF change.changeType = "added"
                    THEN [trail EXCEPT !.live = liveObjectsAfter({}, 0)]
                    ELSE [trail EXCEPT !.live.edges =
                              [id \in Ids(edges') |->
                                  IF id = change.edgeId /\ "previousEdge" \in DOMAIN change
                                  THEN trail.base.edges[id]
                                  ELSE trail.live.edges[id]]]
    /\ UNCHANGED budget

\* The history effect: the reference point is a copy of the live graph; the history
\* gets the former reference point as the object it is.
ObjectsAfterEffects ==
    /\ trail' =
           IF "graph" \notin dirty \/ (~isRestoringRef /\ ~skipHistoryOnceRef /\ isDraggingRef)
           THEN trail
           ELSE IF isRestoringRef \/ skipHistoryOnceRef
           THEN [trail EXCEPT !.prev = clonedObjects(nodes, edges, UsedObjects(trail), 0)]
           ELSE IF ~areGraphsEqual(prevGraphRef.nodes, prevGraphRef.edges, nodes, edges)
           THEN [trail EXCEPT
                    !.hist = LastN(Append(@, trail.prev), HISTORY_LIMIT),
                    !.fut = << >>,
                    !.prev = clonedObjects(nodes, edges, UsedObjects(trail), 0)]
           ELSE trail
    /\ UNCHANGED budget

\* handleSync: the staged changes of the request hold, as currentNode / currentEdge,
\* the objects of the live graph that the diff was computed from.
ObjectsSent ==
    /\ LET staged == stagedChangesOf(pendingChanges, stagedChangeIds)
           carried(kind) ==
               {EntityIdOf(staged[i]) :
                   i \in {j \in 1..Len(staged) :
                             staged[j].kind = kind /\ staged[j].changeType # "removed"}}
       IN  trail' = [trail EXCEPT !.flight = Append(@,
                        [nodes |-> [id \in carried("node") |-> trail.live.nodes[id]],
                         edges |-> [id \in carried("edge") |-> trail.live.edges[id]]])]
    /\ UNCHANGED budget

\* The fold of a successful commit: map.set(id, change.currentNode) puts the object
\* the change holds into the baseline; every other entry stays the object it was.
ObjectsFolded(i) ==
    /\ trail' = [trail EXCEPT
                    !.base = [nodes |-> [id \in Ids(lastSyncedNodes') |->
                                            IF id \in DOMAIN trail.flight[i].nodes
                                            THEN trail.flight[i].nodes[id]
                                            ELSE trail.base.nodes[id]],
                              edges |-> [id \in Ids(lastSyncedEdges') |->
                                            IF id \in DOMAIN trail.flight[i].edges
                                            THEN trail.flight[i].edges[id]
                                            ELSE trail.base.edges[id]]],
                    !.flight = RemoveAt(@, i)]
    /\ UNCHANGED budget

ObjectsDropped(i) ==
    /\ trail' = [trail EXCEPT !.flight = RemoveAt(@, i)]
    /\ UNCHANGED budget

NextAlias ==
    \/ \E eager \in BOOLEAN : RunEffects(eager) /\ ObjectsAfterEffects
    \/ \E id \in NodeIds : onNodeClick(id) /\ Quiet
    \/ \E id \in NodeIds : onPaneContextMenu(id) /\ ObjectsEdited({})
    \/ \E label \in Labels : handleSaveNode(label) /\ ObjectsEdited({selectedNodeId})
    \/ \E id \in NodeIds : deleteNode(id) /\ ObjectsEdited({})
    \/ \E id \in EdgeIds : deleteEdge(id) /\ ObjectsEdited({})
    \/ \E id \in EdgeIds, conn \in Connections :
           addSuggestedEdge(id, conn[1], conn[2]) /\ ObjectsEdited({})
    \/ \E id \in NodeIds : onNodeDragStart(id) /\ ObjectsAtDragStart
    \/ \E x \in Positions : onNodesChangePosition(x) /\ ObjectsEdited({selectedNodeId})
    \/ \E lastChange \in BOOLEAN : onNodeDragStop(lastChange) /\ ObjectsAtDragStop(lastChange)
    \/ undo /\ ObjectsUndone
    \/ redo /\ ObjectsRedone
    \/ \E id \in Range(PendingIds(pendingChanges)) : handleToggleStage(id) /\ Quiet
    \/ handleStageAll /\ Quiet
    \/ handleUnstageAll /\ Quiet
    \/ \E id \in ChangeIds : handleRevertChange(id) /\ ObjectsReverted(id)
    \/ \E button \in {"top", "panel"} : handleSync(button) /\ ObjectsSent
    \/ \E i \in 1..Len(inflight), outcome \in SuccessOutcomes :
           syncSucceeded(i, outcome) /\ ObjectsFolded(i)
    \/ \E i \in 1..Len(inflight), outcome \in FailureOutcomes :
           syncFailed(i, outcome) /\ ObjectsDropped(i)

SpecAlias == InitAlias /\ [][NextAlias]_vars

\* The stored snapshots: the baseline, the reference point, the drag-start slot and
\* the entries of the two stacks.
StoredSnapshots == <<trail.base, trail.prev>> \o trail.drag \o trail.hist \o trail.fut

\* The objects of the stored snapshots with their content.
contentOf(objects, ns, es) ==
    {<<objects.nodes[ns[i].id], ns[i]>> : i \in 1..Len(ns)}
        \cup {<<objects.edges[es[i].id], es[i]>> : i \in 1..Len(es)}

StoredContent ==
    contentOf(trail.base, lastSyncedNodes, lastSyncedEdges)
        \cup contentOf(trail.prev, prevGraphRef.nodes, prevGraphRef.edges)
        \cup UNION {contentOf(trail.drag[i], dragStartSnapshotRef[i].nodes,
                              dragStartSnapshotRef[i].edges) : i \in 1..Len(trail.drag)}
        \cup UNION {contentOf(trail.hist[i], historyRef[i].nodes, historyRef[i].edges) :
                        i \in 1..Len(trail.hist)}
        \cup UNION {contentOf(trail.fut[i], futureRef[i].nodes, futureRef[i].edges) :
                        i \in 1..Len(trail.fut)}

\* No stored snapshot holds an object of the live graph, and no two of them hold the
\* same object.
SnapshotsAreIndependent ==
    /\ \A i \in 1..Len(StoredSnapshots) :
           ObjectsOf(StoredSnapshots[i]) \cap ObjectsOf(trail.live) = {}
    /\ \A i, j \in 1..Len(StoredSnapshots) :
           i # j => ObjectsOf(StoredSnapshots[i]) \cap ObjectsOf(StoredSnapshots[j]) = {}

\* No step changes the content of an object that a stored snapshot holds.
StoredContentKept ==
    \A before \in StoredContent, after \in StoredContent' :
        before[1] = after[1] => before[2] = after[2]

StoredCopies == <<trail.prev>> \o trail.drag \o trail.hist \o trail.fut

NoFlights == [edited |-> << >>, clean |-> FALSE, alone |-> FALSE]

InitFold == InitWith(MaxHistorySteps, NoFlights, << >>)

\* A gesture: every outstanding request has seen an edit when the live graph changes.
FlightsEdited ==
    /\ trail' = [edited |-> IF nodes' = nodes /\ edges' = edges THEN trail.edited
                            ELSE [i \in 1..Len(trail.edited) |-> TRUE],
                 clean |-> FALSE,
                 alone |-> FALSE]
    /\ UNCHANGED budget

\* handleSync was invoked: one more outstanding request, which has seen no edit yet.
FlightSent ==
    /\ trail' = [edited |-> IF Len(inflight') > Len(inflight)
                            THEN Append(trail.edited, FALSE) ELSE trail.edited,
                 clean |-> FALSE,
                 alone |-> FALSE]
    /\ UNCHANGED budget

\* Request i completed with success.
FlightFolded(i) ==
    /\ trail' = [edited |-> RemoveAt(trail.edited, i),
                 clean |-> inflight[i].unstaged = {} /\ ~trail.edited[i],
                 alone |-> commitsOk = 0 /\ Len(inflight) = 1]
    /\ UNCHANGED budget

\* Request i failed.
FlightDropped(i) ==
    /\ trail' = [edited |-> RemoveAt(trail.edited, i), clean |-> FALSE, alone |-> FALSE]
    /\ UNCHANGED budget

NextFold ==
    \/ \E eager \in BOOLEAN : RunEffects(eager) /\ Quiet
    \/ \E id \in NodeIds : onPaneContextMenu(id) /\ FlightsEdited
    \/ \E id \in EdgeIds : deleteEdge(id) /\ FlightsEdited
    \/ undo /\ FlightsEdited
    \/ \E button \in {"top", "panel"} : handleSync(button) /\ FlightSent
    \/ \E i \in 1..Len(inflight), outcome \in SuccessOutcomes :
           syncSucceeded(i, outcome) /\ FlightFolded(i)
    \/ \E i \in 1..Len(inflight), outcome \in FailureOutcomes :
           syncFailed(i, outcome) /\ FlightDropped(i)

SpecFold == InitFold /\ [][NextFold]_vars

\* The baseline holds exactly the ids of the live graph, each entity loosely equal to
\* the live one, and once the diff has been recomputed the pending list is empty.
BaselineIsLive ==
    /\ Ids(lastSyncedNodes) = Ids(nodes)
    /\ Ids(lastSyncedEdges) = Ids(edges)
    /\ computePendingChanges(nodes, edges, lastSyncedNodes, lastSyncedEdges) = << >>
    /\ dirty = {} => pendingChanges = << >>

\* C29: if every pending change is staged when handleSync is invoked, the commit
\* succeeds and the live graph is not edited while the request is outstanding, then
\* after the commit the baseline has exactly the ids of the live graph, each entity
\* loosely equal to the live one, and the recomputed pending list is empty.
C29_FullCommitMakesBaselineLive == trail.clean => BaselineIsLive

\* The same for a commit that is the first to complete and the only one outstanding.
FullCommitAloneMakesBaselineLive == (trail.clean /\ trail.alone) => BaselineIsLive

(***************************************************************************)
(* C30: the snapshot of a live graph against the live graph, with the      *)
(* nodes applyAiSuggestions creates.  The trail keeps the live graph as it *)
(* was before the last state update.                                       *)
(***************************************************************************)
\* The notes of a suggested node: a string, or none (the data then has notes: undefined).
SuggestedNotes == {"n", Undefined}

\* applyAiSuggestions with no updated nodes and no suggested connections: newIds holds
\* the ids of the new nodes (none, or one the graph does not hold yet).  setNodes and
\* setEdges both run, so the graph effects run even when nothing was added.
applyAiSuggestions(newIds, notes) ==
    /\ Idle
    /\ PointerFree
    /\ CanStep
    /\ Len(newIds) <= 1
    /\ \A i \in 1..Len(newIds) : newIds[i] \notin Ids(nodes)
    /\ nodes' = nodes \o
           [i \in 1..Len(newIds) |->
               attachNodeTypeWith(
                   [id |-> newIds[i], type |-> DEFAULT_NODE_TYPE,
                    position |-> [x |-> 0, y |-> 0],
                    data |-> [label |-> newIds[i], notes |-> notes],
                    style |-> DEFAULT_NODE_STYLE],
                   DEFAULT_NODE_TYPE)]
    /\ dirty' = {"graph"}
    /\ steps' = steps + 1
    /\ act' = NoAct
    /\ UNCHANGED <<edges, baseVars, stageVars, syncVars, selVars, histVars, dragVars,
                   commitsOk, userUnstaged>>

InitAi == InitWith(MaxSteps, [nodes |-> seededInitialNodes, edges |-> initialEdges], << >>)

\* A state update: the trail is the live graph before it.
GraphBefore ==
    /\ trail' = [nodes |-> nodes, edges |-> edges]
    /\ UNCHANGED budget

NextAi ==
    \/ \E eager \in BOOLEAN : RunEffects(eager) /\ Quiet
    \/ \E newIds \in {<< >>} \cup {<<id>> : id \in NodeIds}, notes \in SuggestedNotes :
           applyAiSuggestions(newIds, notes) /\ GraphBefore
    \/ \E id \in NodeIds : onNodeClick(id) /\ GraphBefore
    \/ \E label \in Labels : handleSaveNode(label) /\ GraphBefore
    \/ \E id \in NodeIds : deleteNode(id) /\ GraphBefore
    \/ undo /\ GraphBefore
    \/ redo /\ GraphBefore

SpecAi == InitAi /\ [][NextAi]_vars

\* The snapshot of the live graph is strictly equal to the live graph.
SnapshotEqualsLive ==
    LET snapshot == cloneGraphState(nodes, edges)
    IN  areGraphsEqual(snapshot.nodes, snapshot.edges, nodes, edges)

\* The graph effects run after a state update that left the graph as it was.
RenderOfUnchangedGraph == "graph" \in dirty /\ nodes = trail.nodes /\ edges = trail.edges

\* C30: for every live graph the editor can hold, nodes with an undefined-valued data
\* key among them, the snapshot cloneGraphState makes of it is strictly equal to it;
\* hence a state update that does not change the graph pushes no history entry and
\* does not clear the future.
C30_SnapshotEqualsLiveGraph ==
    /\ []SnapshotEqualsLive
    /\ [][RenderOfUnchangedGraph => UNCHANGED <<historyRef, futureRef>>]_vars

\* The second half alone.
UnchangedGraphPushesNothing ==
    [][RenderOfUnchangedGraph => UNCHANGED <<historyRef, futureRef>>]_vars

====
